---- MODULE Spec2Model ----
(***************************************************************************)
(* SecurePass-Analyzer: the password strength analyzer                     *)
(* (src/password_analyzer.py), the password generator                      *)
(* (src/password_generator.py) and the breach checker                      *)
(* (src/breach_checker.py).                                                *)
(*                                                                         *)
(* A string is a sequence of characters; a character is a one-character    *)
(* TLA+ string ("a", "7", " ") or, for a code point outside printable      *)
(* ASCII, its code point name ("U+000A", "U+0663").                        *)
(* Entropy values are carried in hundredths of a bit: Python rounds them   *)
(* to 2 decimals, so 7211 stands for 72.11 bits.                           *)
(***************************************************************************)
EXTENDS Integers, Sequences, FiniteSets, TLC

(* ------------------------------ bounds --------------------------------- *)

\* An analysed password is the concatenation of at most MaxChunks fragments.
MaxChunks == 2

\* generate_random is called with a length of at most MaxGenLen.
MaxGenLen == 4

\* A random draw from a sequence has at most MaxDraw outcomes, spread evenly
\* over the sequence.
MaxDraw == 2

\* generate_custom_pattern is called with patterns of at most MaxPatternLen
\* characters.
MaxPatternLen == 3

\* largest word_count given to generate_memorable
MaxWords == 3

\* largest count given to batch_generate
MaxBatch == 2

\* largest length given to generate_pronounceable
MaxPronLen == 6

\* most lines in a response of the breach service
MaxLines == 2

(* ----------------------- the Python string module ---------------------- *)

ascii_lowercase ==
    <<"a", "b", "c", "d", "e", "f", "g", "h", "i", "j", "k", "l", "m", "n", "o", "p",
      "q", "r", "s", "t", "u", "v", "w", "x", "y", "z">>

ascii_uppercase ==
    <<"A", "B", "C", "D", "E", "F", "G", "H", "I", "J", "K", "L", "M", "N", "O", "P",
      "Q", "R", "S", "T", "U", "V", "W", "X", "Y", "Z">>

ascii_digits ==
    <<"0", "1", "2", "3", "4", "5", "6", "7", "8", "9">>

(* --------------------------- string helpers ---------------------------- *)

ToSet(s) == {s[i] : i \in 1..Len(s)}

\* `sub in s` of Python: sub occurs as a contiguous substring of s.
Contains(s, sub) ==
    \E i \in 1..(Len(s) - Len(sub) + 1) : SubSeq(s, i, i + Len(sub) - 1) = sub

\* str.lower() on one character (ASCII letters; other characters of the
\* modelled universe have no lower-case mapping).
lower_table ==
    [c \in ToSet(ascii_uppercase) |->
        ascii_lowercase[CHOOSE i \in 1..Len(ascii_uppercase) : ascii_uppercase[i] = c]]

lower_char(c) == IF c \in DOMAIN lower_table THEN lower_table[c] ELSE c

\* the password compared as typed, without str.lower()
lower_omitted(s) == s

lower(s) == [i \in 1..Len(s) |-> lower_char(s[i])]

\* c is a character of the alphabet seq
InSeq(c, seq) == \E j \in 1..Len(seq) : seq[j] = c

RECURSIVE SumOver(_, _)
SumOver(f, S) ==
    IF S = {} THEN 0
    ELSE LET k == CHOOSE k \in S : TRUE IN f[k] + SumOver(f, S \ {k})

Max(a, b) == IF a >= b THEN a ELSE b
Min(a, b) == IF a <= b THEN a ELSE b

(* ------------------- regular-expression character sets ----------------- *)

\* [a-z], [A-Z], [0-9]
LowerClass == ToSet(ascii_lowercase)

UpperClass == ToSet(ascii_uppercase)

DigitClass == ToSet(ascii_digits)

\* The class [!@#$%^&*()_+\-=\[\]{};:'",.<>?/\\|`~] of the analyzer.
SymbolClass ==
    {"!", "@", "#", "$", "%", "^", "&", "*", "(", ")", "_", "+", "-", "=", "[", "]",
      "{", "}", ";", ":", "'", "\"", ",", ".", "<", ">", "?", "/", "\\", "|", "U+0060", "~"}

\* Decimal digits outside ASCII that \d of a Python str pattern also matches.
UnicodeDigits == {"U+0663"}

\* \d
re_digit(c) == c \in DigitClass \/ c \in UnicodeDigits

\* . (any character except the newline)
re_dot(c) == c # "U+000A"

\* (012|123|234|345|456|567|678|789|890)
SeqNumberTriples ==
    {<<"0", "1", "2">>, <<"1", "2", "3">>, <<"2", "3", "4">>, <<"3", "4", "5">>,
      <<"4", "5", "6">>, <<"5", "6", "7">>, <<"6", "7", "8">>, <<"7", "8", "9">>,
      <<"8", "9", "0">>}

\* (abc|bcd|...|xyz)
SeqLetterTriples ==
    {<<"a", "b", "c">>, <<"b", "c", "d">>, <<"c", "d", "e">>, <<"d", "e", "f">>,
      <<"e", "f", "g">>, <<"f", "g", "h">>, <<"g", "h", "i">>, <<"h", "i", "j">>,
      <<"i", "j", "k">>, <<"j", "k", "l">>, <<"k", "l", "m">>, <<"l", "m", "n">>,
      <<"m", "n", "o">>, <<"n", "o", "p">>, <<"o", "p", "q">>, <<"p", "q", "r">>,
      <<"q", "r", "s">>, <<"r", "s", "t">>, <<"s", "t", "u">>, <<"t", "u", "v">>,
      <<"u", "v", "w">>, <<"v", "w", "x">>, <<"w", "x", "y">>, <<"x", "y", "z">>}

(* ----------------------- PasswordAnalyzer data ------------------------- *)

KeyboardPatterns ==
    <<<<"q", "w", "e", "r", "t", "y">>, <<"a", "s", "d", "f">>, <<"z", "x", "c", "v">>,
      <<"1", "2", "3", "4">>, <<"0", "9", "8", "7">>,
      <<"q", "w", "e", "r", "t", "y", "u", "i", "o", "p">>,
      <<"a", "s", "d", "f", "g", "h", "j", "k", "l">>,
      <<"z", "x", "c", "v", "b", "n", "m">>>>

CommonPasswords ==
    {<<"p", "a", "s", "s", "w", "o", "r", "d">>, <<"1", "2", "3", "4", "5", "6">>,
      <<"p", "a", "s", "s", "w", "o", "r", "d", "1", "2", "3">>,
      <<"a", "d", "m", "i", "n">>, <<"l", "e", "t", "m", "e", "i", "n">>,
      <<"w", "e", "l", "c", "o", "m", "e">>, <<"m", "o", "n", "k", "e", "y">>,
      <<"1", "2", "3", "4", "5", "6", "7", "8", "9", "0">>,
      <<"q", "w", "e", "r", "t", "y">>, <<"a", "b", "c", "1", "2", "3">>,
      <<"P", "a", "s", "s", "w", "o", "r", "d", "1">>,
      <<"p", "a", "s", "s", "w", "o", "r", "d", "1">>,
      <<"1", "2", "3", "4", "5", "6", "7", "8", "9">>,
      <<"w", "e", "l", "c", "o", "m", "e", "1", "2", "3">>}

(* ----------------------- PasswordGenerator data ------------------------ *)

GeneratorSymbols ==
    <<"!", "@", "#", "$", "%", "^", "&", "*", "(", ")", "_", "+", "-", "=", "[", "]",
      "{", "}", "|", ";", ":", ",", ".", "<", ">", "?">>

Adjectives ==
    <<<<"h", "a", "p", "p", "y">>, <<"b", "r", "a", "v", "e">>,
      <<"q", "u", "i", "c", "k">>, <<"s", "m", "a", "r", "t">>,
      <<"b", "r", "i", "g", "h", "t">>, <<"s", "t", "r", "o", "n", "g">>,
      <<"s", "w", "i", "f", "t">>, <<"b", "o", "l", "d">>,
      <<"f", "i", "e", "r", "c", "e">>, <<"g", "e", "n", "t", "l", "e">>,
      <<"m", "i", "g", "h", "t", "y">>, <<"n", "o", "b", "l", "e">>,
      <<"p", "r", "o", "u", "d">>, <<"r", "o", "y", "a", "l">>,
      <<"s", "h", "a", "r", "p">>, <<"w", "i", "s", "e">>>>

Nouns ==
    <<<<"e", "a", "g", "l", "e">>, <<"t", "i", "g", "e", "r">>,
      <<"m", "o", "u", "n", "t", "a", "i", "n">>, <<"o", "c", "e", "a", "n">>,
      <<"t", "h", "u", "n", "d", "e", "r">>,
      <<"l", "i", "g", "h", "t", "n", "i", "n", "g">>,
      <<"d", "r", "a", "g", "o", "n">>, <<"p", "h", "o", "e", "n", "i", "x">>,
      <<"w", "a", "r", "r", "i", "o", "r">>, <<"h", "u", "n", "t", "e", "r">>,
      <<"g", "u", "a", "r", "d", "i", "a", "n">>,
      <<"c", "h", "a", "m", "p", "i", "o", "n">>, <<"l", "e", "g", "e", "n", "d">>,
      <<"h", "e", "r", "o">>>>

Verbs ==
    <<<<"r", "u", "n", "s">>, <<"f", "l", "i", "e", "s">>, <<"j", "u", "m", "p", "s">>,
      <<"f", "i", "g", "h", "t", "s">>, <<"g", "u", "a", "r", "d", "s">>,
      <<"p", "r", "o", "t", "e", "c", "t", "s">>,
      <<"s", "t", "r", "i", "k", "e", "s">>, <<"s", "o", "a", "r", "s">>,
      <<"c", "l", "i", "m", "b", "s">>, <<"d", "i", "v", "e", "s">>,
      <<"h", "u", "n", "t", "s">>, <<"e", "x", "p", "l", "o", "r", "e", "s">>,
      <<"c", "o", "n", "q", "u", "e", "r", "s">>, <<"d", "e", "f", "e", "n", "d", "s">>>>

\* BreachChecker.hibp_password_api, "https://api.pwnedpasswords.com/range/"
HibpPasswordApi ==
    <<"h", "t", "t", "p", "s", ":", "/", "/", "a", "p", "i", ".", "p", "w", "n", "e",
      "d", "p", "a", "s", "s", "w", "o", "r", "d", "s", ".", "c", "o", "m", "/", "r",
      "a", "n", "g", "e", "/">>

\* BreachChecker.headers
Headers == [User_Agent |-> "SecurePass-Analyzer-1.0"]

(* ------------------------------- state --------------------------------- *)

VARIABLES
    common_passwords,   \* PasswordAnalyzer.common_passwords
    keyboard_patterns,  \* PasswordAnalyzer.keyboard_patterns
    lowercase,          \* PasswordGenerator.lowercase
    uppercase,          \* PasswordGenerator.uppercase
    digits,             \* PasswordGenerator.digits
    symbols,            \* PasswordGenerator.symbols
    adjectives,         \* PasswordGenerator.adjectives
    nouns,              \* PasswordGenerator.nouns
    verbs,              \* PasswordGenerator.verbs
    hibp_password_api,  \* BreachChecker.hibp_password_api
    headers,            \* BreachChecker.headers
    pc,                 \* "idle": no call in progress; "done": a call has finished
    call,               \* the operation called last and its arguments
    zxcvbn_calls,       \* answers the external estimator gave during the call
    draws,              \* number of random draws made during the call
    rng,                \* the random-number modules the call drew from
    http,               \* the HTTP requests the call sent
    ret                 \* what the call returned or raised

fields == <<common_passwords, keyboard_patterns, lowercase, uppercase, digits,
            symbols, adjectives, nouns, verbs, hibp_password_api, headers>>

vars == <<common_passwords, keyboard_patterns, lowercase, uppercase, digits,
          symbols, adjectives, nouns, verbs, hibp_password_api, headers,
          pc, call, zxcvbn_calls, draws, rng, http, ret>>

(* --------------------- PasswordAnalyzer: pure parts -------------------- *)

\* charset_size of calculate_entropy
charset_size(password) ==
      (IF \E i \in 1..Len(password) : password[i] \in LowerClass THEN 26 ELSE 0)
    + (IF \E i \in 1..Len(password) : password[i] \in UpperClass THEN 26 ELSE 0)
    + (IF \E i \in 1..Len(password) : password[i] \in DigitClass THEN 10 ELSE 0)
    + (IF \E i \in 1..Len(password) : password[i] \in SymbolClass THEN 32 ELSE 0)

\* math.log2 of the charset sizes that can arise, in millionths; with it
\* calculate_entropy below agrees with Python's float result for every
\* password of up to 40 characters.
log2_micro(c) ==
    CASE c = 10 -> 3321928 [] c = 26 -> 4700440 [] c = 32 -> 5000000
      [] c = 36 -> 5169925 [] c = 42 -> 5392317 [] c = 52 -> 5700440
      [] c = 58 -> 5857981 [] c = 62 -> 5954196 [] c = 68 -> 6087463
      [] c = 84 -> 6392317 [] c = 94 -> 6554589
      [] c = 78 -> 6285402 [] c = 88 -> 6459432

\* math.log2 raises ValueError ("math domain error") outside its domain.
log2_domain(c) == c > 0

\* round(len(password) * math.log2(charset_size), 2), in hundredths of a bit.
calculate_entropy(password) ==
    IF charset_size(password) = 0 THEN 0
    ELSE (Len(password) * log2_micro(charset_size(password)) + 5000) \div 10000

\* calculate_entropy without the charset_size == 0 test
calculate_entropy_raises_unguarded(password) ==
    ~log2_domain(charset_size(password))

\* calculate_entropy raises exactly when it evaluates math.log2 outside its
\* domain; the charset_size == 0 test returns before the logarithm is taken.
calculate_entropy_raises(password) ==
    charset_size(password) # 0 /\ ~log2_domain(charset_size(password))

\* (.)\1{2,}
repeated_run(password) ==
    \E i \in 1..(Len(password) - 2) :
        /\ re_dot(password[i])
        /\ password[i + 1] = password[i]
        /\ password[i + 2] = password[i]

\* \d{n} at position i
digits_at(password, i, n) ==
    /\ i >= 1
    /\ i + n - 1 <= Len(password)
    /\ \A j \in i..(i + n - 1) : re_digit(password[j])

date_sep(password, i) ==
    i >= 1 /\ i <= Len(password) /\ password[i] \in {"-", "/"}

\* \d{2,4}[-/]\d{2}[-/]\d{2,4}|\d{6,8}
date_regex(password) ==
    \/ \E i \in 1..Len(password) : \E a \in 2..4 : \E b \in 2..4 :
          /\ digits_at(password, i, a)
          /\ date_sep(password, i + a)
          /\ digits_at(password, i + a + 1, 2)
          /\ date_sep(password, i + a + 3)
          /\ digits_at(password, i + a + 4, b)
    \/ \E i \in 1..Len(password) : \E n \in 6..8 : digits_at(password, i, n)

\* re.search of an alternation of three-character literals
search_triple(s, triples) ==
    \E i \in 1..(Len(s) - 2) : SubSeq(s, i, i + 2) \in triples

check_patterns(password, kb, common) ==
    LET lowered == lower(password) IN
    [sequential_numbers  |-> search_triple(lowered, SeqNumberTriples),
     sequential_letters  |-> search_triple(lowered, SeqLetterTriples),
     repeated_characters |-> repeated_run(password),
     keyboard_pattern    |-> \E k \in 1..Len(kb) : Contains(lowered, kb[k]),
     common_word         |-> lowered \in common,
     date_pattern        |-> date_regex(password)]

get_character_diversity(password) ==
    [has_lowercase |-> \E i \in 1..Len(password) : password[i] \in LowerClass,
     has_uppercase |-> \E i \in 1..Len(password) : password[i] \in UpperClass,
     has_numbers   |-> \E i \in 1..Len(password) : password[i] \in DigitClass,
     has_symbols   |-> \E i \in 1..Len(password) : password[i] \in SymbolClass,
     has_spaces    |-> \E i \in 1..Len(password) : password[i] = " "]

\* length scoring whose last tier forgets the factor 2
length_points_unscaled(password) ==
    IF Len(password) >= 16 THEN 30
    ELSE IF Len(password) >= 12 THEN 25
    ELSE IF Len(password) >= 8 THEN 15
    ELSE Max(0, Len(password))

\* Length scoring (max 30 points)
length_points(password) ==
    IF Len(password) >= 16 THEN 30
    ELSE IF Len(password) >= 12 THEN 25
    ELSE IF Len(password) >= 8 THEN 15
    ELSE Max(0, Len(password) * 2)

\* Entropy scoring (max 30 points); int(entropy / 2) of a value in hundredths.
entropy_points(password) ==
    LET entropy == calculate_entropy(password) IN
    IF entropy >= 6000 THEN 30
    ELSE IF entropy >= 4000 THEN 20
    ELSE IF entropy >= 2500 THEN 10
    ELSE Max(0, entropy \div 200)

\* Character diversity: 5 for every true value of the dictionary
diversity_points(password) ==
    LET diversity == get_character_diversity(password) IN
    5 * Cardinality({k \in DOMAIN diversity : diversity[k]})

penalties ==
    [sequential_numbers  |-> -5,
     sequential_letters  |-> -5,
     repeated_characters |-> -10,
     keyboard_pattern    |-> -10,
     common_word         |-> -20,
     date_pattern        |-> -5]

pattern_penalty(password, kb, common) ==
    LET patterns == check_patterns(password, kb, common)
        applied  == [k \in DOMAIN patterns |-> IF patterns[k] THEN penalties[k] ELSE 0]
    IN SumOver(applied, DOMAIN applied)

\* the score left as summed
clamp_score_missing(score) == score

\* score = max(0, min(100, score))
clamp_score(score) == Max(0, Min(100, score))

\* strength levels with the Strong threshold off by five
strength_level_shifted(score) ==
    IF score >= 80 THEN "Very Strong"
    ELSE IF score >= 65 THEN "Strong"
    ELSE IF score >= 40 THEN "Moderate"
    ELSE IF score >= 20 THEN "Weak"
    ELSE "Very Weak"

\* Determine strength level
strength_level(score) ==
    IF score >= 80 THEN "Very Strong"
    ELSE IF score >= 60 THEN "Strong"
    ELSE IF score >= 40 THEN "Moderate"
    ELSE IF score >= 20 THEN "Weak"
    ELSE "Very Weak"

\* calculate_score without the `if not password` return
calculate_score_no_empty_case(password, zscore, kb, common) ==
    LET score == clamp_score(length_points(password)
                             + entropy_points(password)
                             + diversity_points(password)
                             + pattern_penalty(password, kb, common)
                             + zscore * 4)
    IN [score |-> score, strength |-> strength_level(score)]

\* calculate_score once every call it makes has returned; zscore is
\* zxcvbn_result['score'].
calculate_score(password, zscore, kb, common) ==
    IF password = <<>> THEN [score |-> 0, strength |-> "Empty"]
    ELSE LET score == clamp_score(length_points(password)
                                  + entropy_points(password)
                                  + diversity_points(password)
                                  + pattern_penalty(password, kb, common)
                                  + zscore * 4)
         IN [score |-> score, strength |-> strength_level(score)]

\* calculate_score consults the estimator unless it returned at `if not password`.
score_calls_zxcvbn(password) == password # <<>>

MsgLength    == "Increase password length to at least 12 characters"
MsgUpper     == "Add uppercase letters"
MsgLower     == "Add lowercase letters"
MsgNumbers   == "Include numbers"
MsgSymbols   == "Add special symbols (!@#$%^&*)"
MsgSeqNum    == "Avoid sequential numbers (123, 456)"
MsgSeqLet    == "Avoid sequential letters (abc, xyz)"
MsgRepeat    == "Avoid repeating the same character multiple times"
MsgKeyboard  == "Avoid keyboard patterns (qwerty, asdf)"
MsgCommon    == "This password is too common - choose something unique"
MsgDate      == "Avoid using dates as they're easy to guess"
MsgGreat     == "Great password! Consider using a password manager to store it securely."

\* the message put in front of the list
prepend_if(cond, recommendations, msg) ==
    IF cond THEN <<msg>> \o recommendations ELSE recommendations

\* recommendations.append(msg) when cond holds
append_if(cond, recommendations, msg) ==
    IF cond THEN Append(recommendations, msg) ELSE recommendations

\* the list returned as built, without the affirmative message
default_if_empty_missing(recommendations) == recommendations

\* if not recommendations: recommendations.append(<affirmative message>)
default_if_empty(recommendations) ==
    IF recommendations = <<>> THEN <<MsgGreat>> ELSE recommendations

\* the length message asked for below 20 characters
too_short_below_20(password) == Len(password) < 20

\* if len(password) < 12
too_short(password) == Len(password) < 12

generate_recommendations(password, patterns, diversity) ==
    LET r1  == append_if(too_short(password), <<>>, MsgLength)
        r2  == append_if(~diversity.has_uppercase, r1, MsgUpper)
        r3  == append_if(~diversity.has_lowercase, r2, MsgLower)
        r4  == append_if(~diversity.has_numbers, r3, MsgNumbers)
        r5  == append_if(~diversity.has_symbols, r4, MsgSymbols)
        r6  == append_if(patterns.sequential_numbers, r5, MsgSeqNum)
        r7  == append_if(patterns.sequential_letters, r6, MsgSeqLet)
        r8  == append_if(patterns.repeated_characters, r7, MsgRepeat)
        r9  == append_if(patterns.keyboard_pattern, r8, MsgKeyboard)
        r10 == append_if(patterns.common_word, r9, MsgCommon)
        r11 == append_if(patterns.date_pattern, r10, MsgDate)
    IN default_if_empty(r11)

(* ----------------------- the external estimator ----------------------- *)

\* What zxcvbn.zxcvbn(password) hands back: a result with a score in 0..4,
\* four crack-time display strings and feedback, or an exception.
zxcvbn_result(x) ==
    [ok |-> TRUE,
     score |-> x,
     crack_times_display |->
        [offline_slow_hashing_1e4_per_second  |-> "slow",
         offline_fast_hashing_1e10_per_second |-> "fast",
         online_throttling_100_per_hour       |-> "throttled",
         online_no_throttling_10_per_second   |-> "unthrottled"],
     feedback |-> [warning |-> "", suggestions |-> <<>>]]

zxcvbn_failure == [ok |-> FALSE]

ZxcvbnOutcomes == {zxcvbn_result(x) : x \in 0..4} \cup {zxcvbn_failure}

(* ------------------------------ inputs --------------------------------- *)

\* Fragments the analysed passwords are built from: one character of every
\* class, and strings that trigger each pattern and each length tier.
Fragments ==
    {<<"a">>, <<"Z">>, <<"7">>, <<"!">>, <<" ">>, <<"a", "a", "a">>,
      <<"a", "b", "c">>, <<"q", "w", "e", "r", "t", "y">>,
      <<"1", "2", "3", "4", "5", "6">>, <<"p", "a", "s", "s", "w", "o", "r", "d">>,
      <<"1", "2", "/", "0", "4", "/", "2", "0", "2", "0">>,
      <<"M", "y", "S", "3", "c", "u", "r", "3", "P", "@", "s", "s", "w", "0", "r", "d", "!">>}

RECURSIVE Concats(_)
Concats(n) ==
    IF n = 0 THEN {<<>>}
    ELSE Concats(n - 1) \cup {p \o f : p \in Concats(n - 1), f \in Fragments}

\* Whole passwords the fragments do not build: a short one with all four
\* character classes, and a run of three line feeds.
Probes ==
    {<<"a", "Z", "7", "!">>, <<"U+000A", "U+000A", "U+000A">>}

\* Every member of the common-password corpus as stored, in capitals, with
\* a capital initial, and inside a longer password.
InCapitals(c) ==
    IF \E j \in 1..26 : ascii_lowercase[j] = c
    THEN ascii_uppercase[CHOOSE j \in 1..26 : ascii_lowercase[j] = c]
    ELSE c

CorpusVariants ==
    UNION {{m, [i \in 1..Len(m) |-> InCapitals(m[i])],
            <<InCapitals(m[1])>> \o Tail(m),
            m \o <<"x">>, <<"x">> \o m} : m \in CommonPasswords}

\* Digit runs and separator-delimited numbers around the lengths the date
\* expression counts.
DigitRuns ==
    {<<"1", "9", "8", "4", "0">>, <<"2", "0", "2", "0", "-", "0", "4", "-", "1", "2">>,
      <<"1", "2", "-", "3", "4">>, <<"9", "9", "/", "9", "9", "/", "9", "9">>}

Passwords == Concats(MaxChunks) \cup Probes \cup CorpusVariants \cup DigitRuns

PatternKeys == DOMAIN penalties

DiversityKeys == {"has_lowercase", "has_uppercase", "has_numbers", "has_symbols", "has_spaces"}

(* ----------------------------- call frame ------------------------------ *)

Return(v) == [kind |-> "return", value |-> v]

Raise(e) == [kind |-> "raise", error |-> e]

NoCall == [op |-> "none"]

NoRet == [kind |-> "none"]

Init ==
    /\ common_passwords = CommonPasswords
    /\ keyboard_patterns = KeyboardPatterns
    /\ lowercase = ascii_lowercase
    /\ uppercase = ascii_uppercase
    /\ digits = ascii_digits
    /\ symbols = GeneratorSymbols
    /\ adjectives = Adjectives
    /\ nouns = Nouns
    /\ verbs = Verbs
    /\ hibp_password_api = HibpPasswordApi
    /\ headers = Headers
    /\ pc = "idle"
    /\ call = NoCall
    /\ zxcvbn_calls = <<>>
    /\ draws = 0
    /\ rng = {}
    /\ http = <<>>
    /\ ret = NoRet

\* The caller takes the result; the objects are ready for the next call.
Finish ==
    /\ pc = "done"
    /\ pc' = "idle"
    /\ call' = NoCall
    /\ zxcvbn_calls' = <<>>
    /\ draws' = 0
    /\ rng' = {}
    /\ http' = <<>>
    /\ ret' = NoRet
    /\ UNCHANGED fields

(* ----------------------- PasswordAnalyzer: calls ----------------------- *)

\* calculate_score(password) with z the estimator's outcome should it be asked:
\* the result and the estimator invocations made.
calculate_score_run(password, z, kb, common) ==
    IF ~score_calls_zxcvbn(password)
    THEN [ret |-> Return(calculate_score(password, 0, kb, common)), zx |-> <<>>]
    ELSE IF calculate_entropy_raises(password)
    THEN [ret |-> Raise("ValueError"), zx |-> <<>>]
    ELSE IF ~z.ok
    THEN [ret |-> Raise("zxcvbn"), zx |-> <<z>>]
    ELSE [ret |-> Return(calculate_score(password, z.score, kb, common)), zx |-> <<z>>]

CalculateScoreOn(inputs) ==
    /\ pc = "idle"
    /\ \E password \in inputs, z \in ZxcvbnOutcomes :
         LET run == calculate_score_run(password, z, keyboard_patterns, common_passwords) IN
         /\ call' = [op |-> "calculate_score", password |-> password]
         /\ zxcvbn_calls' = run.zx
         /\ ret' = run.ret
    /\ pc' = "done"
    /\ draws' = 0
    /\ rng' = {}
    /\ http' = <<>>
    /\ UNCHANGED fields

CalculateScore == CalculateScoreOn(Passwords)

\* the dictionary with the estimator's contribution to the score, 4 times its
\* score, in the place of the score itself
analysis_report_contribution(password, scored, z, kb, common) ==
    [password_length      |-> Len(password),
     score                |-> scored.score,
     strength             |-> scored.strength,
     entropy_bits         |-> calculate_entropy(password),
     patterns_found       |-> check_patterns(password, kb, common),
     character_diversity  |-> get_character_diversity(password),
     crack_time_estimates |->
        [offline_slow       |-> z.crack_times_display.offline_slow_hashing_1e4_per_second,
         offline_fast       |-> z.crack_times_display.offline_fast_hashing_1e10_per_second,
         online_throttled   |-> z.crack_times_display.online_throttling_100_per_hour,
         online_unthrottled |-> z.crack_times_display.online_no_throttling_10_per_second],
     recommendations      |-> generate_recommendations(password,
                                  check_patterns(password, kb, common),
                                  get_character_diversity(password)),
     zxcvbn_score         |-> 4 * z.score,
     warning              |-> z.feedback.warning,
     suggestions          |-> z.feedback.suggestions]

\* The dictionary analyze returns.
analysis_report(password, scored, z, kb, common) ==
    [password_length      |-> Len(password),
     score                |-> scored.score,
     strength             |-> scored.strength,
     entropy_bits         |-> calculate_entropy(password),
     patterns_found       |-> check_patterns(password, kb, common),
     character_diversity  |-> get_character_diversity(password),
     crack_time_estimates |->
        [offline_slow       |-> z.crack_times_display.offline_slow_hashing_1e4_per_second,
         offline_fast       |-> z.crack_times_display.offline_fast_hashing_1e10_per_second,
         online_throttled   |-> z.crack_times_display.online_throttling_100_per_hour,
         online_unthrottled |-> z.crack_times_display.online_no_throttling_10_per_second],
     recommendations      |-> generate_recommendations(password,
                                  check_patterns(password, kb, common),
                                  get_character_diversity(password)),
     zxcvbn_score         |-> z.score,
     warning              |-> z.feedback.warning,
     suggestions          |-> z.feedback.suggestions]

\* analyze catching the failure of the second estimator invocation and
\* returning what it has computed so far
analyze_run_partial(password, z1, z2, kb, common) ==
    LET scored == calculate_score_run(password, z1, kb, common) IN
    IF scored.ret.kind = "raise"
    THEN scored
    ELSE IF ~z2.ok
    THEN [ret |-> Return([password_length |-> Len(password),
                          score           |-> scored.ret.value.score,
                          strength        |-> scored.ret.value.strength,
                          entropy_bits    |-> calculate_entropy(password)]),
          zx  |-> Append(scored.zx, z2)]
    ELSE [ret |-> Return(analysis_report(password, scored.ret.value, z2, kb, common)),
          zx  |-> Append(scored.zx, z2)]

\* analyze(password): z1 is the estimator's outcome inside calculate_score,
\* z2 its outcome at the second invocation in analyze itself.
analyze_run(password, z1, z2, kb, common) ==
    LET scored == calculate_score_run(password, z1, kb, common) IN
    IF scored.ret.kind = "raise"
    THEN scored
    ELSE IF calculate_entropy_raises(password)
    THEN [ret |-> Raise("ValueError"), zx |-> scored.zx]
    ELSE IF ~z2.ok
    THEN [ret |-> Raise("zxcvbn"), zx |-> Append(scored.zx, z2)]
    ELSE [ret |-> Return(analysis_report(password, scored.ret.value, z2, kb, common)),
          zx  |-> Append(scored.zx, z2)]

\* zxcvbn is a function of the password: two invocations that both return
\* give the same result; an exception may strike either invocation.
AnalyzeOn(inputs) ==
    /\ pc = "idle"
    /\ \E password \in inputs, z1 \in ZxcvbnOutcomes, z2 \in ZxcvbnOutcomes :
         LET run == analyze_run(password, z1, z2, keyboard_patterns, common_passwords) IN
         /\ (z1.ok /\ z2.ok) => z1 = z2
         /\ call' = [op |-> "analyze", password |-> password]
         /\ zxcvbn_calls' = run.zx
         /\ ret' = run.ret
    /\ pc' = "done"
    /\ draws' = 0
    /\ rng' = {}
    /\ http' = <<>>
    /\ UNCHANGED fields

Analyze == AnalyzeOn(Passwords)

\* generate_recommendations called directly: the two dictionaries are the
\* caller's, any truth values.
RecPasswords == {<<>>} \cup Fragments

GenerateRecommendationsOn(inputs) ==
    /\ pc = "idle"
    /\ \E password \in inputs,
          patterns \in [PatternKeys -> BOOLEAN],
          diversity \in [DiversityKeys -> BOOLEAN] :
         /\ call' = [op |-> "generate_recommendations", password |-> password,
                     patterns |-> patterns, diversity |-> diversity]
         /\ ret' = Return(generate_recommendations(password, patterns, diversity))
    /\ pc' = "done"
    /\ zxcvbn_calls' = <<>>
    /\ draws' = 0
    /\ rng' = {}
    /\ http' = <<>>
    /\ UNCHANGED fields

GenerateRecommendations == GenerateRecommendationsOn(RecPasswords)

CalculateEntropyOn(inputs) ==
    /\ pc = "idle"
    /\ \E password \in inputs :
         /\ call' = [op |-> "calculate_entropy", password |-> password]
         /\ ret' = IF calculate_entropy_raises(password)
                   THEN Raise("ValueError")
                   ELSE Return(calculate_entropy(password))
    /\ pc' = "done"
    /\ zxcvbn_calls' = <<>>
    /\ draws' = 0
    /\ rng' = {}
    /\ http' = <<>>
    /\ UNCHANGED fields

CalculateEntropy == CalculateEntropyOn(Passwords)

CheckPatternsOn(inputs) ==
    /\ pc = "idle"
    /\ \E password \in inputs :
         /\ call' = [op |-> "check_patterns", password |-> password]
         /\ ret' = Return(check_patterns(password, keyboard_patterns, common_passwords))
    /\ pc' = "done"
    /\ zxcvbn_calls' = <<>>
    /\ draws' = 0
    /\ rng' = {}
    /\ http' = <<>>
    /\ UNCHANGED fields

CheckPatterns == CheckPatternsOn(Passwords)

GetCharacterDiversityOn(inputs) ==
    /\ pc = "idle"
    /\ \E password \in inputs :
         /\ call' = [op |-> "get_character_diversity", password |-> password]
         /\ ret' = Return(get_character_diversity(password))
    /\ pc' = "done"
    /\ zxcvbn_calls' = <<>>
    /\ draws' = 0
    /\ rng' = {}
    /\ http' = <<>>
    /\ UNCHANGED fields

GetCharacterDiversity == GetCharacterDiversityOn(Passwords)

NextAnalyzer ==
    \/ CalculateEntropy
    \/ CheckPatterns
    \/ GetCharacterDiversity
    \/ CalculateScore
    \/ Analyze
    \/ GenerateRecommendations
    \/ Finish

SpecAnalyzer == Init /\ [][NextAnalyzer]_vars

(* --------------------- PasswordGenerator: pure parts ------------------- *)

\* s.replace(c, '') for every c of cs
remove_chars(s, cs) == SelectSeq(s, LAMBDA c : c \notin cs)

\* The outcomes of secrets.choice(seq): the elements at the sampled indices.
choice_indices(n) == {(k * n) \div MaxDraw + 1 : k \in 0..(MaxDraw - 1)}

secrets_choice(seq) == {seq[i] : i \in choice_indices(Len(seq))}

\* The characters generate_random removes from a class when exclude_ambiguous
\* is set: 'l','o' / 'O','I' / '0','1'.
AmbiguousLower == {"l", "o"}

AmbiguousUpper == {"O", "I"}

AmbiguousDigits == {"0", "1"}

\* chars of one class
class_chars(alphabet, ambiguous, exclude_ambiguous) ==
    IF exclude_ambiguous THEN remove_chars(alphabet, ambiguous) ELSE alphabet

\* The `chars` of every selected class, in the order the code visits them.
selected_classes(self, a) ==
       (IF a.use_lowercase
        THEN <<class_chars(self.lowercase, AmbiguousLower, a.exclude_ambiguous)>> ELSE <<>>)
    \o (IF a.use_uppercase
        THEN <<class_chars(self.uppercase, AmbiguousUpper, a.exclude_ambiguous)>> ELSE <<>>)
    \o (IF a.use_digits
        THEN <<class_chars(self.digits, AmbiguousDigits, a.exclude_ambiguous)>> ELSE <<>>)
    \o (IF a.use_symbols THEN <<self.symbols>> ELSE <<>>)

RECURSIVE join(_)
join(seqs) == IF seqs = <<>> THEN <<>> ELSE Head(seqs) \o join(Tail(seqs))

\* char_pool after the exclude_chars loop
char_pool(self, a) == remove_chars(join(selected_classes(self, a)), ToSet(a.exclude_chars))

\* required_chars: one secrets.choice(chars) per selected class
RECURSIVE required_chars(_)
required_chars(classes) ==
    IF classes = <<>> THEN {<<>>}
    ELSE {<<c>> \o rest : c \in secrets_choice(Head(classes)),
                          rest \in required_chars(Tail(classes))}

\* n times password.append(secrets.choice(pool))
RECURSIVE fill(_, _, _)
fill(password, pool, n) ==
    IF n <= 0 THEN {password}
    ELSE UNION {fill(Append(password, c), pool, n - 1) : c \in secrets_choice(pool)}

\* s without its i-th element
remove_at(s, i) == SubSeq(s, 1, i - 1) \o SubSeq(s, i + 1, Len(s))

\* random.shuffle(password): every order of the same characters. The first
\* character of the result is any character of the list (taken at its first
\* occurrence), the rest any order of what remains.
RECURSIVE shuffle(_)
shuffle(password) ==
    IF password = <<>> THEN {<<>>}
    ELSE UNION {{<<password[i]>> \o rest : rest \in shuffle(remove_at(password, i))} :
                i \in {j \in 1..Len(password) :
                          \A k \in 1..(j - 1) : password[k] # password[j]}}

\* the length test off by one
length_rejected_below_3(length) == length < 3

\* if length < 4: raise ValueError
length_rejected(length) == length < 4

\* the password started empty, the required characters forgotten
initial_password_empty(required) == <<>>

\* password = required_chars.copy()
initial_password(required) == required

\* The password list before the shuffle: the required characters followed by
\* length - len(password) draws from the pool.
filled_passwords(self, a) ==
    UNION {fill(initial_password(required), char_pool(self, a),
                a.length - Len(initial_password(required))) :
           required \in required_chars(selected_classes(self, a))}

\* pattern characters with 'L' drawing from the lowercase letters
pattern_char_L_as_l(self, char) ==
    IF char = "l" THEN secrets_choice(self.lowercase)
    ELSE IF char = "L" THEN secrets_choice(self.lowercase)
    ELSE IF char = "d" THEN secrets_choice(self.digits)
    ELSE IF char = "s" THEN secrets_choice(self.symbols)
    ELSE IF char = "a" THEN secrets_choice(self.lowercase \o self.uppercase \o self.digits)
    ELSE IF char = "*" THEN secrets_choice(self.lowercase \o self.uppercase
                                           \o self.digits \o self.symbols)
    ELSE {char}

\* One character of generate_custom_pattern: the outcomes for pattern
\* character char.
pattern_char(self, char) ==
    IF char = "l" THEN secrets_choice(self.lowercase)
    ELSE IF char = "L" THEN secrets_choice(self.uppercase)
    ELSE IF char = "d" THEN secrets_choice(self.digits)
    ELSE IF char = "s" THEN secrets_choice(self.symbols)
    ELSE IF char = "a" THEN secrets_choice(self.lowercase \o self.uppercase \o self.digits)
    ELSE IF char = "*" THEN secrets_choice(self.lowercase \o self.uppercase
                                           \o self.digits \o self.symbols)
    ELSE {char}

RECURSIVE generate_custom_pattern(_, _)
generate_custom_pattern(self, pattern) ==
    IF pattern = <<>> THEN {<<>>}
    ELSE {<<c>> \o rest : c \in pattern_char(self, Head(pattern)),
                          rest \in generate_custom_pattern(self, Tail(pattern))}

(* ----------------------- PasswordGenerator: calls ---------------------- *)

\* The generator object as the methods see it.
generator ==
    [lowercase |-> lowercase, uppercase |-> uppercase, digits |-> digits,
     symbols |-> symbols, adjectives |-> adjectives, nouns |-> nouns, verbs |-> verbs]

GenLengths == 0..MaxGenLen

\* exclude_chars: nothing, or the first lowercase letter and every digit
ExcludeCharsInputs ==
    {<<>>, <<"a", "0", "1", "2", "3", "4", "5", "6", "7", "8", "9">>}

\* generate_random: the length test, the pool, one required character per
\* selected class, the fill from the pool, the shuffle.  The characters are
\* drawn with secrets.choice, the final order with random.shuffle.
GenerateRandomOn(lengths, excludes) ==
    /\ pc = "idle"
    /\ \E length \in lengths, lc \in BOOLEAN, uc \in BOOLEAN, dg \in BOOLEAN,
          sy \in BOOLEAN, amb \in BOOLEAN, excl \in excludes :
         LET a == [op |-> "generate_random", length |-> length,
                   use_lowercase |-> lc, use_uppercase |-> uc, use_digits |-> dg,
                   use_symbols |-> sy, exclude_ambiguous |-> amb, exclude_chars |-> excl]
         IN /\ call' = a
            /\ IF length_rejected(a.length)
               THEN ret' = Raise("ValueError") /\ draws' = 0 /\ rng' = {}
               ELSE IF char_pool(generator, a) = <<>>
               THEN /\ ret' = Raise("ValueError")
                    /\ draws' = Len(selected_classes(generator, a))
                    /\ rng' = IF selected_classes(generator, a) = <<>>
                              THEN {} ELSE {"secrets"}
               ELSE \E filled \in filled_passwords(generator, a) :
                    \E password \in shuffle(filled) :
                       /\ ret' = Return(password)
                       /\ draws' = Len(filled)
                       /\ rng' = {"secrets", "random"}
    /\ pc' = "done"
    /\ zxcvbn_calls' = <<>>
    /\ http' = <<>>
    /\ UNCHANGED fields

GenerateRandom == GenerateRandomOn(GenLengths, ExcludeCharsInputs)

\* Pattern characters: the six placeholders and two literals.
PatternChars == {"l", "L", "d", "s", "a", "*", "@", "D"}

RECURSIVE PatternsUpTo(_)
PatternsUpTo(n) ==
    IF n = 0 THEN {<<>>}
    ELSE PatternsUpTo(n - 1)
         \cup {Append(p, c) : p \in PatternsUpTo(n - 1), c \in PatternChars}

\* The positions of a pattern that are filled by a random draw.
placeholders(pattern) ==
    {i \in 1..Len(pattern) : pattern[i] \in {"l", "L", "d", "s", "a", "*"}}

GenerateCustomPatternOn(patterns) ==
    /\ pc = "idle"
    /\ \E pattern \in patterns :
         \E password \in generate_custom_pattern(generator, pattern) :
            /\ call' = [op |-> "generate_custom_pattern", pattern |-> pattern]
            /\ ret' = Return(password)
            /\ draws' = Cardinality(placeholders(pattern))
            /\ rng' = IF placeholders(pattern) = {} THEN {} ELSE {"secrets"}
    /\ pc' = "done"
    /\ zxcvbn_calls' = <<>>
    /\ http' = <<>>
    /\ UNCHANGED fields

GenerateCustomPattern == GenerateCustomPatternOn(PatternsUpTo(MaxPatternLen))

(* ------------------ PasswordGenerator: generate_memorable -------------- *)

upper_table ==
    [c \in ToSet(ascii_lowercase) |->
        ascii_uppercase[CHOOSE i \in 1..Len(ascii_lowercase) : ascii_lowercase[i] = c]]

upper_char(c) == IF c \in DOMAIN upper_table THEN upper_table[c] ELSE c

\* str.capitalize(): the first character upper-cased, the rest lower-cased
capitalize(word) ==
    IF word = <<>> THEN <<>> ELSE <<upper_char(word[1])>> \o lower(Tail(word))

\* secrets.randbelow(n), sampled at its smallest and largest outcome
secrets_randbelow(n) == {0, n - 1}

\* str(d) of a one-digit number
str_digit(d) == ascii_digits[d + 1]

\* if word_count < 2: word_count = 2
effective_word_count(word_count) == IF word_count < 2 THEN 2 ELSE word_count

\* every word capitalized when capitalize is set
memorable_word_all_capitalized(self, cap, i) ==
    LET list == IF i % 3 = 0 THEN self.adjectives
                ELSE IF i % 3 = 1 THEN self.nouns ELSE self.verbs
    IN {IF cap THEN capitalize(w) ELSE w : w \in secrets_choice(list)}

\* the word of loop index i: adjective, noun, verb in turn, capitalized at
\* even indices when capitalize is set
memorable_word(self, cap, i) ==
    LET list == IF i % 3 = 0 THEN self.adjectives
                ELSE IF i % 3 = 1 THEN self.nouns ELSE self.verbs
    IN {IF cap /\ i % 2 = 0 THEN capitalize(w) ELSE w : w \in secrets_choice(list)}

\* the list `words` after the loop, indices i..n-1
RECURSIVE memorable_words(_, _, _, _)
memorable_words(self, n, cap, i) ==
    IF i >= n THEN {<<>>}
    ELSE {<<w>> \o rest : w \in memorable_word(self, cap, i),
                          rest \in memorable_words(self, n, cap, i + 1)}

\* ''.join([str(secrets.randbelow(10)) for _ in range(n)])
RECURSIVE random_digits(_)
random_digits(n) ==
    IF n = 0 THEN {<<>>}
    ELSE {<<str_digit(d)>> \o rest : d \in secrets_randbelow(10),
                                     rest \in random_digits(n - 1)}

\* ''.join([secrets.choice(self.symbols) for _ in range(n)])
RECURSIVE random_symbols(_, _)
random_symbols(self, n) ==
    IF n = 0 THEN {<<>>}
    ELSE {<<c>> \o rest : c \in secrets_choice(self.symbols),
                          rest \in random_symbols(self, n - 1)}

\* the 2-4 digit number appended when add_numbers is set, for every outcome
\* of secrets.choice([2, 3, 4])
number_suffix == UNION {random_digits(k) : k \in ToSet(<<2, 3, 4>>)}

\* the 1-2 symbols appended when add_symbols is set
symbol_suffix(self) == UNION {random_symbols(self, k) : k \in secrets_choice(<<1, 2>>)}

WordCounts == 0..MaxWords

\* generate_memorable: the words, then the number, then the symbols; every
\* draw is made with the secrets module.
GenerateMemorableOn(word_counts) ==
    /\ pc = "idle"
    /\ \E word_count \in word_counts, add_numbers \in BOOLEAN,
          add_symbols \in BOOLEAN, cap \in BOOLEAN :
         \E words \in memorable_words(generator, effective_word_count(word_count), cap, 0) :
         \E number \in (IF add_numbers THEN number_suffix ELSE {<<>>}) :
         \E syms \in (IF add_symbols THEN symbol_suffix(generator) ELSE {<<>>}) :
            /\ call' = [op |-> "generate_memorable", word_count |-> word_count,
                        add_numbers |-> add_numbers, add_symbols |-> add_symbols,
                        capitalize |-> cap]
            /\ ret' = Return(join(words) \o number \o syms)
            /\ draws' = Len(words) + (IF add_numbers THEN 1 + Len(number) ELSE 0)
                                   + (IF add_symbols THEN 1 + Len(syms) ELSE 0)
    /\ pc' = "done"
    /\ rng' = {"secrets"}
    /\ zxcvbn_calls' = <<>>
    /\ http' = <<>>
    /\ UNCHANGED fields

GenerateMemorable == GenerateMemorableOn(WordCounts)

NextMemorable == GenerateMemorable \/ Finish

SpecMemorable == Init /\ [][NextMemorable]_vars

(* ----------------- PasswordGenerator: generate_passphrase -------------- *)

\* the words generate_passphrase adds to the adjectives and nouns
ExtraWords ==
    <<<<"b", "o", "o", "k">>,
      <<"t", "r", "e", "e">>,
      <<"r", "i", "v", "e", "r">>,
      <<"c", "l", "o", "u", "d">>,
      <<"s", "t", "a", "r">>,
      <<"m", "o", "o", "n">>,
      <<"s", "u", "n">>,
      <<"f", "i", "r", "e">>,
      <<"w", "a", "t", "e", "r">>,
      <<"e", "a", "r", "t", "h">>,
      <<"w", "i", "n", "d">>,
      <<"s", "t", "o", "n", "e">>,
      <<"c", "r", "y", "s", "t", "a", "l">>,
      <<"s", "h", "a", "d", "o", "w">>,
      <<"l", "i", "g", "h", "t">>,
      <<"d", "r", "e", "a", "m">>,
      <<"s", "p", "i", "r", "i", "t">>,
      <<"h", "e", "a", "r", "t">>,
      <<"s", "o", "u", "l">>>>

\* word_list = self.adjectives; word_list += self.nouns + [...]: the list of
\* adjectives itself is extended
adjectives_after_word_list_extended(self) == self.adjectives \o self.nouns \o ExtraWords

\* self.adjectives + self.nouns + [...] builds a new list: self.adjectives
\* is what it was
adjectives_after_word_list(self) == self.adjectives

\* word_list
passphrase_word_list(self) == self.adjectives \o self.nouns \o ExtraWords

\* the list `words` after word_count iterations
RECURSIVE passphrase_words(_, _, _)
passphrase_words(self, n, capitalize_words) ==
    IF n <= 0 THEN {<<>>}
    ELSE {<<IF capitalize_words THEN capitalize(w) ELSE w>> \o rest :
             w \in secrets_choice(passphrase_word_list(self)),
             rest \in passphrase_words(self, n - 1, capitalize_words)}

\* separator.join(words)
RECURSIVE join_with(_, _)
join_with(separator, words) ==
    IF words = <<>> THEN <<>>
    ELSE IF Len(words) = 1 THEN words[1]
    ELSE words[1] \o separator \o join_with(separator, Tail(words))

Separators == {<<"-">>, <<>>}

GeneratePassphrase ==
    /\ pc = "idle"
    /\ \E word_count \in WordCounts, separator \in Separators,
          capitalize_words \in BOOLEAN :
         \E words \in passphrase_words(generator, word_count, capitalize_words) :
            /\ call' = [op |-> "generate_passphrase", word_count |-> word_count,
                        separator |-> separator, capitalize_words |-> capitalize_words]
            /\ ret' = Return(join_with(separator, words))
            /\ draws' = Len(words)
            /\ rng' = IF words = <<>> THEN {} ELSE {"secrets"}
    /\ pc' = "done"
    /\ zxcvbn_calls' = <<>>
    /\ http' = <<>>
    /\ adjectives' = adjectives_after_word_list(generator)
    /\ UNCHANGED <<common_passwords, keyboard_patterns, lowercase, uppercase, digits,
                   symbols, nouns, verbs, hibp_password_api, headers>>

(* --------------- PasswordGenerator: generate_pronounceable ------------- *)

consonants ==
    <<"b", "c", "d", "f", "g", "h", "j", "k", "l", "m", "n", "p", "q", "r", "s", "t", "v", "w", "x", "y", "z">>

vowels == <<"a", "e", "i", "o", "u">>

\* the patterns with a one-letter pattern among them
SyllablePatterns_with_single_vowel == {<<"c", "v">>, <<"c", "v", "c">>, <<"v", "c">>, <<"v">>}

\* secrets.choice(['cv', 'cvc', 'vc'])
SyllablePatterns == {<<"c", "v">>, <<"c", "v", "c">>, <<"v", "c">>}

\* secrets.choice(seq), sampled at the first and the last element
secrets_choice_ends(seq) == {seq[1], seq[Len(seq)]}

\* the syllables of a pattern: a consonant for 'c', a vowel otherwise
RECURSIVE syllables(_)
syllables(pattern) ==
    IF pattern = <<>> THEN {<<>>}
    ELSE {<<c>> \o rest :
             c \in secrets_choice_ends(IF Head(pattern) = "c" THEN consonants ELSE vowels),
             rest \in syllables(Tail(pattern))}

\* length - (4 if add_numbers else 0) - (2 if add_symbols else 0)
syllable_budget(a) ==
    a.length - (IF a.add_numbers THEN 4 ELSE 0) - (IF a.add_symbols THEN 2 ELSE 0)

\* password[:n], also for a negative n, which counts from the end
slice_to(password, n) ==
    IF n >= 0 THEN SubSeq(password, 1, Min(n, Len(password)))
    ELSE SubSeq(password, 1, Max(0, Len(password) + n))

\* the while loop of generate_pronounceable with `password` built so far and
\* n draws made, then the trim and the digits and symbols appended
RECURSIVE pronounceable_loop(_, _, _)
pronounceable_loop(password, n, a) ==
    IF Len(password) < syllable_budget(a)
    THEN \E pattern \in SyllablePatterns :
         \E syllable \in syllables(pattern) :
         \E cap \in (IF Len(password) = 0 THEN {TRUE} ELSE {TRUE, FALSE}) :
            pronounceable_loop(
                password \o (IF cap THEN capitalize(syllable) ELSE syllable),
                n + 1 + Len(pattern) + (IF Len(password) = 0 THEN 0 ELSE 1), a)
    ELSE \E number \in (IF a.add_numbers THEN random_digits(4) ELSE {<<>>}) :
         \E syms \in (IF a.add_symbols THEN random_symbols(generator, 2) ELSE {<<>>}) :
            /\ ret' = Return(slice_to(password, syllable_budget(a)) \o number \o syms)
            /\ draws' = n + Len(number) + Len(syms)
            /\ rng' = IF n + Len(number) + Len(syms) = 0 THEN {} ELSE {"secrets"}

PronLengths == 0..MaxPronLen

GeneratePronounceableOn(lengths) ==
    /\ pc = "idle"
    /\ \E length \in lengths, add_numbers \in BOOLEAN, add_symbols \in BOOLEAN :
         LET a == [op |-> "generate_pronounceable", length |-> length,
                   add_numbers |-> add_numbers, add_symbols |-> add_symbols]
         IN /\ call' = a
            /\ pronounceable_loop(<<>>, 0, a)
    /\ pc' = "done"
    /\ zxcvbn_calls' = <<>>
    /\ http' = <<>>
    /\ UNCHANGED fields

GeneratePronounceable == GeneratePronounceableOn(PronLengths)

NextPronounceable == GeneratePronounceable \/ Finish

SpecPronounceable == Init /\ [][NextPronounceable]_vars

(* ------- generate_pronounceable, one step per loop iteration ----------- *)

\* The locals of a running generate_pronounceable call: `password` as built
\* so far and the number of loop iterations completed.
Running(password, iterations) ==
    [kind |-> "running", password |-> password, iterations |-> iterations]

\* The call starts: password = ""
PronounceableEnter ==
    /\ pc = "idle"
    /\ \E length \in PronLengths, add_numbers \in BOOLEAN, add_symbols \in BOOLEAN :
         call' = [op |-> "generate_pronounceable", length |-> length,
                  add_numbers |-> add_numbers, add_symbols |-> add_symbols]
    /\ pc' = "loop"
    /\ ret' = Running(<<>>, 0)
    /\ draws' = 0
    /\ rng' = {}
    /\ zxcvbn_calls' = <<>>
    /\ http' = <<>>
    /\ UNCHANGED fields

\* One iteration of the while loop: the condition holds, a pattern and its
\* letters are drawn, the syllable is capitalized or not, and appended.
PronounceableIterate ==
    /\ pc = "loop"
    /\ Len(ret.password) < syllable_budget(call)
    /\ \E pattern \in SyllablePatterns :
       \E syllable \in syllables(pattern) :
       \E cap \in (IF Len(ret.password) = 0 THEN {TRUE} ELSE {TRUE, FALSE}) :
          /\ ret' = Running(ret.password \o (IF cap THEN capitalize(syllable) ELSE syllable),
                            ret.iterations + 1)
          /\ draws' = draws + 1 + Len(pattern) + (IF Len(ret.password) = 0 THEN 0 ELSE 1)
    /\ rng' = {"secrets"}
    /\ UNCHANGED <<pc, call, zxcvbn_calls, http>>
    /\ UNCHANGED fields

\* The loop condition fails: the trim, the digits and the symbols, and the
\* return.
PronounceableExit ==
    /\ pc = "loop"
    /\ ~(Len(ret.password) < syllable_budget(call))
    /\ \E number \in (IF call.add_numbers THEN random_digits(4) ELSE {<<>>}) :
       \E syms \in (IF call.add_symbols THEN random_symbols(generator, 2) ELSE {<<>>}) :
          /\ ret' = Return(slice_to(ret.password, syllable_budget(call)) \o number \o syms)
          /\ draws' = draws + Len(number) + Len(syms)
          /\ rng' = IF draws + Len(number) + Len(syms) = 0 THEN {} ELSE {"secrets"}
    /\ pc' = "done"
    /\ UNCHANGED <<call, zxcvbn_calls, http>>
    /\ UNCHANGED fields

NextSyllables ==
    \/ PronounceableEnter
    \/ PronounceableIterate
    \/ PronounceableExit
    \/ Finish

\* A call that has started keeps executing: its next statement is taken.
SpecSyllables ==
    /\ Init
    /\ [][NextSyllables]_vars
    /\ WF_vars(PronounceableIterate)
    /\ WF_vars(PronounceableExit)

(* ------------------- PasswordGenerator: batch_generate ----------------- *)

\* What one generate_random(**kwargs) call can do.
generate_random_outcomes(self, a) ==
    IF length_rejected(a.length) \/ char_pool(self, a) = <<>>
    THEN {Raise("ValueError")}
    ELSE {Return(password) :
             password \in UNION {shuffle(filled) : filled \in filled_passwords(self, a)}}

\* the list returned without its repeated entries
batch_result_deduplicated(passwords) ==
    SelectSeq([i \in 1..Len(passwords) |->
                  IF \E k \in 1..(i - 1) : passwords[k] = passwords[i]
                  THEN <<"dup">> ELSE passwords[i]],
              LAMBDA p : p # <<"dup">>)

\* return passwords
batch_result(passwords) == passwords

\* the loop of batch_generate, n iterations left and `passwords` appended
\* to so far: each iteration appends the result of one generate_random call,
\* whose exception ends the call
RECURSIVE batch_loop(_, _, _, _)
batch_loop(passwords, outcomes, n, count) ==
    IF n <= 0
    THEN /\ ret' = Return(batch_result(passwords))
         /\ draws' = SumOver([i \in 1..Len(passwords) |-> Len(passwords[i])],
                             1..Len(passwords))
         /\ rng' = IF count <= 0 THEN {} ELSE {"secrets", "random"}
    ELSE \E o \in outcomes :
            IF o.kind = "raise"
            THEN ret' = o /\ draws' = 0 /\ rng' = {}
            ELSE batch_loop(Append(passwords, o.value), outcomes, n - 1, count)

BatchCounts == 0..MaxBatch

\* The keyword arguments handed on to generate_random: one class, lowercase
\* or uppercase letters, with exclude_chars leaving its first letter in the
\* pool; a length the generator rejects and two it accepts.
BatchKwargs ==
    {[length |-> length, use_lowercase |-> lc, use_uppercase |-> ~lc,
      use_digits |-> FALSE, use_symbols |-> FALSE, exclude_ambiguous |-> FALSE,
      exclude_chars |-> Tail(ascii_lowercase) \o Tail(ascii_uppercase)] :
        length \in {3, 4, 5}, lc \in BOOLEAN}

BatchGenerate ==
    /\ pc = "idle"
    /\ \E count \in BatchCounts, kwargs \in BatchKwargs :
          /\ call' = [op |-> "batch_generate", count |-> count, kwargs |-> kwargs]
          /\ batch_loop(<<>>, generate_random_outcomes(generator, kwargs), count, count)
    /\ pc' = "done"
    /\ zxcvbn_calls' = <<>>
    /\ http' = <<>>
    /\ UNCHANGED fields

NextBatch == BatchGenerate \/ Finish

SpecBatch == Init /\ [][NextBatch]_vars

(* ------------------ PasswordGenerator: estimate_strength --------------- *)

\* c.islower(), c.isupper(), c.isdigit(): Python's tests, which also accept
\* characters outside ASCII (of the modelled ones, the digit U+0663)
py_islower(c) == c \in LowerClass

py_isupper(c) == c \in UpperClass

py_isdigit(c) == c \in DigitClass \cup UnicodeDigits

\* charset_size of estimate_strength
estimate_charset_size(self, password) ==
    (IF \E i \in 1..Len(password) : py_islower(password[i]) THEN 26 ELSE 0)
    + (IF \E i \in 1..Len(password) : py_isupper(password[i]) THEN 26 ELSE 0)
    + (IF \E i \in 1..Len(password) : py_isdigit(password[i]) THEN 10 ELSE 0)
    + (IF \E i \in 1..Len(password) : InSeq(password[i], self.symbols)
       THEN Len(self.symbols) ELSE 0)

\* entropy = length * math.log2(charset_size) if charset_size > 0 else 0,
\* in millionths of a bit
estimate_entropy_micro(self, password) ==
    IF estimate_charset_size(self, password) > 0
    THEN Len(password) * log2_micro(estimate_charset_size(self, password))
    ELSE 0

\* the label with "Very Strong" from 50 bits on
estimate_label_from_50(entropy_micro) ==
    IF entropy_micro >= 50000000 THEN "Very Strong"
    ELSE IF entropy_micro >= 40000000 THEN "Strong"
    ELSE IF entropy_micro >= 30000000 THEN "Moderate"
    ELSE "Weak"

\* the if/elif chain on the entropy (before rounding)
estimate_label(entropy_micro) ==
    IF entropy_micro >= 60000000 THEN "Very Strong"
    ELSE IF entropy_micro >= 40000000 THEN "Strong"
    ELSE IF entropy_micro >= 30000000 THEN "Moderate"
    ELSE "Weak"

\* The dictionary estimate_strength returns; entropy is round(entropy, 2) in
\* hundredths of a bit (as Python gives it for up to 43 characters).
estimate_strength(self, password) ==
    [entropy      |-> (estimate_entropy_micro(self, password) + 5000) \div 10000,
     strength     |-> estimate_label(estimate_entropy_micro(self, password)),
     charset_size |-> estimate_charset_size(self, password),
     length       |-> Len(password)]

\* The passwords estimated: those analyzed and one of non-ASCII digits.
StrengthPasswords == Passwords \cup {<<"U+0663", "U+0663">>}

EstimateStrengthOn(inputs) ==
    /\ pc = "idle"
    /\ \E password \in inputs :
         /\ call' = [op |-> "estimate_strength", password |-> password]
         /\ ret' = Return(estimate_strength(generator, password))
    /\ pc' = "done"
    /\ zxcvbn_calls' = <<>>
    /\ draws' = 0
    /\ rng' = {}
    /\ http' = <<>>
    /\ UNCHANGED fields

EstimateStrength == EstimateStrengthOn(StrengthPasswords)

NextStrength == EstimateStrength \/ Finish

SpecStrength == Init /\ [][NextStrength]_vars

NextGenerator == GenerateRandom \/ Finish

SpecGenerator == Init /\ [][NextGenerator]_vars

NextPattern == GenerateCustomPattern \/ Finish

SpecPattern == Init /\ [][NextPattern]_vars

(* ------------------------- BreachChecker: parts ------------------------ *)

\* The passwords looked up.
BreachPasswords ==
    {<<"p", "a", "s", "s", "w", "o", "r", "d">>,
     <<"1", "2", "3", "4", "5", "6">>,
     <<"M", "y", "S", "3", "c", "u", "r", "3", "P", "@", "s", "s", "w", "0", "r", "d", "!">>}

\* hashlib.sha1(password.encode('utf-8')).hexdigest().upper(): the 40
\* hexadecimal digits of the SHA-1 hash of each password looked up
sha1_hexdigest_upper(p) ==
    CASE
         p = <<"p", "a", "s", "s", "w", "o", "r", "d">> ->
       <<"5", "B", "A", "A", "6", "1", "E", "4", "C", "9", "B", "9", "3", "F", "3", "F", "0", "6", "8", "2",
         "2", "5", "0", "B", "6", "C", "F", "8", "3", "3", "1", "B", "7", "E", "E", "6", "8", "F", "D", "8">>
      [] p = <<"1", "2", "3", "4", "5", "6">> ->
       <<"7", "C", "4", "A", "8", "D", "0", "9", "C", "A", "3", "7", "6", "2", "A", "F", "6", "1", "E", "5",
         "9", "5", "2", "0", "9", "4", "3", "D", "C", "2", "6", "4", "9", "4", "F", "8", "9", "4", "1", "B">>
      [] p = <<"M", "y", "S", "3", "c", "u", "r", "3", "P", "@", "s", "s", "w", "0", "r", "d", "!">> ->
       <<"A", "8", "A", "4", "4", "C", "E", "4", "8", "E", "E", "3", "E", "6", "7", "4", "9", "E", "D", "1",
         "3", "7", "3", "2", "4", "0", "D", "3", "D", "E", "F", "9", "4", "B", "4", "0", "C", "8", "0", "A">>

\* the hash of "hunter2", a password that is not looked up
OtherHash ==
    <<"F", "3", "B", "B", "B", "D", "6", "6", "A", "6", "3", "D", "4", "B", "F", "1", "7", "4", "7", "9",
         "4", "0", "5", "7", "8", "E", "C", "3", "D", "0", "1", "0", "3", "5", "3", "0", "E", "2", "1", "D">>

\* sha1_hash[:5]
hash_prefix(sha1_hash) == SubSeq(sha1_hash, 1, 5)

\* sha1_hash[5:]
hash_suffix(sha1_hash) == SubSeq(sha1_hash, 6, Len(sha1_hash))

\* the whole hash put into the URL
request_url_full_hash(self, sha1_hash) == self.hibp_password_api \o sha1_hash

\* f"{self.hibp_password_api}{prefix}"
request_url(self, sha1_hash) == self.hibp_password_api \o hash_prefix(sha1_hash)

\* requests.get(url, headers=self.headers, timeout=10)
get_request(self, sha1_hash) ==
    [method |-> "GET", url |-> request_url(self, sha1_hash),
     headers |-> self.headers, timeout |-> 10]

\* text.split(sep) from position i on, cur the piece being collected: the
\* piece ends at the first occurrence of sep at or after i, or at the end
RECURSIVE split_from(_, _, _, _)
split_from(text, sep, i, cur) ==
    LET hits == {j \in i..(Len(text) - Len(sep) + 1) :
                    SubSeq(text, j, j + Len(sep) - 1) = sep}
    IN IF hits = {} THEN <<cur \o SubSeq(text, i, Len(text))>>
       ELSE LET first == CHOOSE j \in hits : \A k \in hits : j <= k IN
            <<cur \o SubSeq(text, i, first - 1)>>
            \o split_from(text, sep, first + Len(sep), <<>>)

split(text, sep) == split_from(text, sep, 1, <<>>)

CRLF == <<"U+000D", "U+000A">>

\* int(count) raises ValueError: no digits, or a character that is none
int_raises(count) ==
    count = <<>> \/ \E i \in 1..Len(count) : ~InSeq(count[i], ascii_digits)

digit_value(c) == (CHOOSE i \in 1..Len(ascii_digits) : ascii_digits[i] = c) - 1

\* int(count) of a string of digits
RECURSIVE int_of(_)
int_of(count) ==
    IF count = <<>> THEN 0
    ELSE 10 * int_of(SubSeq(count, 1, Len(count) - 1)) + digit_value(count[Len(count)])

\* the loop over the lines of the response, from line i on: the count of the
\* first line whose suffix is ours, nothing found, or the ValueError of an
\* entry with two colons or of a count that is no number
RECURSIVE scan_hashes(_, _, _)
scan_hashes(hashes, suffix, i) ==
    IF i > Len(hashes) THEN [kind |-> "not_found"]
    ELSE IF ~InSeq(":", hashes[i]) THEN scan_hashes(hashes, suffix, i + 1)
    ELSE LET parts == split(hashes[i], <<":">>) IN
         IF Len(parts) # 2 THEN [kind |-> "ValueError"]
         ELSE IF parts[1] # suffix THEN scan_hashes(hashes, suffix, i + 1)
         ELSE IF int_raises(parts[2]) THEN [kind |-> "ValueError"]
         ELSE [kind |-> "found", count |-> int_of(parts[2])]

\* check_password_breach(password) given what the service did: the tuple
\* returned and whether the lookup failed (every failure is caught and
\* answered with (False, 0))
check_password_breach_run(password, outcome) ==
    IF outcome.kind = "RequestException"
    THEN [value |-> <<FALSE, 0>>, failed |-> TRUE]
    ELSE IF outcome.status_code # 200
    THEN [value |-> <<FALSE, 0>>, failed |-> TRUE]
    ELSE LET found == scan_hashes(split(outcome.text, CRLF),
                                  hash_suffix(sha1_hexdigest_upper(password)), 1)
         IN IF found.kind = "ValueError"
            THEN [value |-> <<FALSE, 0>>, failed |-> TRUE]
            ELSE IF found.kind = "found"
            THEN [value |-> <<TRUE, found.count>>, failed |-> FALSE]
            ELSE [value |-> <<FALSE, 0>>, failed |-> FALSE]

\* _calculate_risk_level(is_breached, exposure_count)
calculate_risk_level(is_breached, exposure_count) ==
    IF ~is_breached THEN "Safe"
    ELSE IF exposure_count < 10 THEN "Low Risk"
    ELSE IF exposure_count < 100 THEN "Medium Risk"
    ELSE IF exposure_count < 1000 THEN "High Risk"
    ELSE "Critical Risk"

(* ------------------------- the breach service -------------------------- *)

\* The counts the service reports.
CountTexts == {<<"3">>, <<"5", "0">>, <<"5", "0", "0">>, <<"5", "0", "0", "0">>}

\* Lines a response may hold for a looked-up suffix: the suffix with a count,
\* another suffix, a count that is no number, an entry with two colons, an
\* empty line and a line without a colon.
ResponseLines(suffix) ==
    {suffix \o <<":">> \o c : c \in CountTexts}
    \cup {hash_suffix(OtherHash) \o <<":", "7">>,
          suffix \o <<":", "x">>,
          suffix \o <<":", "1", ":", "2">>,
          <<>>,
          <<"o", "k">>}

\* Response texts of up to n lines, joined by CR LF.
RECURSIVE ResponseTexts(_, _)
ResponseTexts(suffix, n) ==
    IF n = 0 THEN {<<>>}
    ELSE ResponseTexts(suffix, n - 1)
         \cup {line \o CRLF \o text : line \in ResponseLines(suffix),
                                       text \in ResponseTexts(suffix, n - 1)}

StatusCodes == {200, 404, 500}

\* What requests.get does: a response, or a network error.
ServiceOutcomes(password, n) ==
    {[kind |-> "response", status_code |-> c, text |-> t] :
        c \in StatusCodes,
        t \in ResponseTexts(hash_suffix(sha1_hexdigest_upper(password)), n)}
    \cup {[kind |-> "RequestException"]}

(* ------------------------- BreachChecker: calls ------------------------ *)

\* The checker object as the methods see it.
checker == [hibp_password_api |-> hibp_password_api, headers |-> headers]

\* One request and what came of it.
exchange(self, password, outcome) ==
    [request |-> get_request(self, sha1_hexdigest_upper(password)), response |-> outcome]

CheckPasswordBreach ==
    /\ pc = "idle"
    /\ \E password \in BreachPasswords :
       \E outcome \in ServiceOutcomes(password, MaxLines) :
          /\ call' = [op |-> "check_password_breach", password |-> password]
          /\ http' = <<exchange(checker, password, outcome)>>
          /\ ret' = Return(check_password_breach_run(password, outcome).value)
    /\ pc' = "done"
    /\ zxcvbn_calls' = <<>>
    /\ draws' = 0
    /\ rng' = {}
    /\ UNCHANGED fields

\* '\u2022' * len(password)
masked(password) == [i \in 1..Len(password) |-> "U+2022"]

\* the dictionary batch_check_passwords appends for one password
batch_entry(password, outcome) ==
    LET checked == check_password_breach_run(password, outcome).value IN
    [password       |-> masked(password),
     is_breached    |-> checked[1],
     exposure_count |-> checked[2],
     risk_level     |-> calculate_risk_level(checked[1], checked[2])]

\* batch_check_passwords with no, one or two passwords; the service answers
\* each lookup with at most one line.
BatchCheckPasswords ==
    /\ pc = "idle"
    /\ \/ /\ call' = [op |-> "batch_check_passwords", passwords |-> <<>>]
          /\ http' = <<>>
          /\ ret' = Return(<<>>)
       \/ \E p1 \in BreachPasswords : \E o1 \in ServiceOutcomes(p1, 1) :
          /\ call' = [op |-> "batch_check_passwords", passwords |-> <<p1>>]
          /\ http' = <<exchange(checker, p1, o1)>>
          /\ ret' = Return(<<batch_entry(p1, o1)>>)
       \/ \E p1 \in BreachPasswords, p2 \in BreachPasswords :
          \E o1 \in ServiceOutcomes(p1, 1), o2 \in ServiceOutcomes(p2, 1) :
          /\ call' = [op |-> "batch_check_passwords", passwords |-> <<p1, p2>>]
          /\ http' = <<exchange(checker, p1, o1), exchange(checker, p2, o2)>>
          /\ ret' = Return(<<batch_entry(p1, o1), batch_entry(p2, o2)>>)
    /\ pc' = "done"
    /\ zxcvbn_calls' = <<>>
    /\ draws' = 0
    /\ rng' = {}
    /\ UNCHANGED fields

NextBreach == CheckPasswordBreach \/ BatchCheckPasswords \/ Finish

SpecBreach == Init /\ [][NextBreach]_vars

(* ------------------- calls of both objects, in any order -------------- *)

\* A few passwords for the analyzer and the strength estimate.
FramePasswords == {<<>>} \cup Fragments \cup Probes

\* Every operation of the analyzer and of the generator, on few inputs each,
\* in any order.
NextFrame ==
    \/ CalculateEntropyOn(FramePasswords)
    \/ CheckPatternsOn(FramePasswords)
    \/ GetCharacterDiversityOn(FramePasswords)
    \/ CalculateScoreOn(FramePasswords)
    \/ AnalyzeOn(FramePasswords)
    \/ GenerateRecommendationsOn({<<>>})
    \/ EstimateStrengthOn(FramePasswords)
    \/ GenerateRandomOn({3, 4}, {<<>>})
    \/ GenerateCustomPatternOn(PatternsUpTo(1))
    \/ GenerateMemorableOn({1, 2})
    \/ GeneratePassphrase
    \/ GeneratePronounceableOn({0, 4})
    \/ BatchGenerate
    \/ Finish

SpecFrame == Init /\ [][NextFrame]_vars

Next ==
    \/ CalculateEntropy
    \/ CheckPatterns
    \/ GetCharacterDiversity
    \/ CalculateScore
    \/ Analyze
    \/ GenerateRecommendations
    \/ GenerateRandom
    \/ GenerateCustomPattern
    \/ GenerateMemorable
    \/ GeneratePassphrase
    \/ GeneratePronounceable
    \/ PronounceableEnter
    \/ PronounceableIterate
    \/ PronounceableExit
    \/ BatchGenerate
    \/ EstimateStrength
    \/ CheckPasswordBreach
    \/ BatchCheckPasswords
    \/ Finish

Spec == Init /\ [][Next]_vars

(* ------------------- properties of the analyzer ------------------------ *)

Returned(op) == pc = "done" /\ call.op = op /\ ret.kind = "return"

\* The score of a finished calculate_score or analyze call.
ReportedScore == ret.value.score

ReportedStrength == ret.value.strength

Scored == Returned("calculate_score") \/ Returned("analyze")

\* The unclamped sum calculate_score forms for the call's password.
RawScore ==
    length_points(call.password) + entropy_points(call.password)
    + diversity_points(call.password)
    + pattern_penalty(call.password, keyboard_patterns, common_passwords)
    + 4 * zxcvbn_calls[1].score

\* C1: whatever the password and the estimator's score in 0..4, the score
\* calculate_score returns, and the one analyze reports, is an integer
\* between 0 and 100.
C1_ScoreInRange == Scored => ReportedScore \in 0..100

\* C1 witness: calculate_score returned 100 for a password whose components
\* add up to more than 100.
C1_Witness ==
    /\ Returned("calculate_score")
    /\ call.password # <<>>
    /\ RawScore > 100
    /\ ReportedScore = 100

AllFalse(dict) == \A k \in DOMAIN dict : ~dict[k]

\* C2: the empty password gets score 0 and label "Empty", no pattern finding
\* and no diversity flag is true for it; a non-empty password never gets the
\* label "Empty".
C2_EmptyPassword ==
    /\ Scored =>
         IF call.password = <<>>
         THEN ReportedScore = 0 /\ ReportedStrength = "Empty"
         ELSE ReportedStrength # "Empty"
    /\ (Returned("analyze") /\ call.password = <<>>) =>
         AllFalse(ret.value.patterns_found) /\ AllFalse(ret.value.character_diversity)
    /\ (Returned("check_patterns") /\ call.password = <<>>) => AllFalse(ret.value)
    /\ (Returned("get_character_diversity") /\ call.password = <<>>) => AllFalse(ret.value)

\* C2 witness: analyze returned a report for the empty password.
C2_Witness == Returned("analyze") /\ call.password = <<>>

EstimatorAnswered == \A i \in 1..Len(zxcvbn_calls) : zxcvbn_calls[i].ok

\* C3: analyze returns a report whenever the estimator answered every time it
\* was asked; nothing in the engine itself raises.
C3_AnalyzeTotal ==
    (pc = "done" /\ call.op = "analyze" /\ EstimatorAnswered) => ret.kind = "return"

\* C3 witness: analyze returned for a non-empty password that has no
\* character of the four counted classes (charset_size is 0).
C3_Witness ==
    /\ Returned("analyze")
    /\ call.password # <<>>
    /\ charset_size(call.password) = 0

\* The length component as the specification words it.
C4_L(n) == IF n >= 16 THEN 30 ELSE IF n >= 12 THEN 25 ELSE IF n >= 8 THEN 15 ELSE 2 * n

\* The entropy component as the specification words it (entropy in hundredths).
C4_E(e) == IF e >= 6000 THEN 30 ELSE IF e >= 4000 THEN 20 ELSE IF e >= 2500 THEN 10 ELSE e \div 200

C4_Clamp(v) == IF v < 0 THEN 0 ELSE IF v > 100 THEN 100 ELSE v

\* C4: for a non-empty password the score is clamp(0, 100, L + E + D + P + 4x).
C4_CompositeScore ==
    (Returned("calculate_score") /\ call.password # <<>>) =>
        /\ pattern_penalty(call.password, keyboard_patterns, common_passwords) <= 0
        /\ ReportedScore =
             C4_Clamp(C4_L(Len(call.password))
                      + C4_E(calculate_entropy(call.password))
                      + diversity_points(call.password)
                      + pattern_penalty(call.password, keyboard_patterns, common_passwords)
                      + 4 * zxcvbn_calls[1].score)

\* C4 witness: a password shorter than 8 with a pattern penalty and entropy
\* below 25 bits, scored strictly between the clamps with estimator score 3.
C4_Witness ==
    /\ Returned("calculate_score")
    /\ call.password # <<>>
    /\ Len(call.password) < 8
    /\ calculate_entropy(call.password) < 2500
    /\ pattern_penalty(call.password, keyboard_patterns, common_passwords) < 0
    /\ zxcvbn_calls[1].score = 3
    /\ ReportedScore > 0

C5_Label(score) ==
    CASE score >= 80 -> "Very Strong"
      [] score \in 60..79 -> "Strong"
      [] score \in 40..59 -> "Moderate"
      [] score \in 20..39 -> "Weak"
      [] score \in 0..19 -> "Very Weak"

\* C5: for a non-empty password the label follows from the clamped score
\* alone: >= 80 Very Strong, 60..79 Strong, 40..59 Moderate, 20..39 Weak,
\* 0..19 Very Weak.
C5_StrengthLabel ==
    (Scored /\ call.password # <<>>) => ReportedStrength = C5_Label(ReportedScore)

\* C5 witness: a score in 60..64 was labelled Strong.
C5_Witness ==
    /\ Scored
    /\ call.password # <<>>
    /\ ReportedScore \in 60..64
    /\ ReportedStrength = "Strong"

\* The recommendation list of a finished call, and the three inputs
\* generate_recommendations saw.
RecList ==
    IF call.op = "analyze" THEN ret.value.recommendations ELSE ret.value

RecPatterns ==
    IF call.op = "analyze" THEN ret.value.patterns_found ELSE call.patterns

RecDiversity ==
    IF call.op = "analyze" THEN ret.value.character_diversity ELSE call.diversity

\* A length, diversity or pattern condition fires.
ConditionFires ==
    \/ Len(call.password) < 12
    \/ ~RecDiversity.has_uppercase
    \/ ~RecDiversity.has_lowercase
    \/ ~RecDiversity.has_numbers
    \/ ~RecDiversity.has_symbols
    \/ \E k \in DOMAIN RecPatterns : RecPatterns[k]

\* C10: the recommendation list is never empty; it contains the affirmative
\* message exactly when no condition fires, and then nothing else.
C10_Recommendations ==
    (Returned("generate_recommendations") \/ Returned("analyze")) =>
        /\ RecList # <<>>
        /\ (MsgGreat \in ToSet(RecList)) <=> ~ConditionFires
        /\ ~ConditionFires => RecList = <<MsgGreat>>

\* C10 witness: generate_recommendations returned only the affirmative
\* message.
C10_Witness ==
    /\ Returned("generate_recommendations")
    /\ ~ConditionFires
    /\ RecList = <<MsgGreat>>

(* ------------------- properties of the generator ----------------------- *)

HasCharOf(password, class) == \E i \in 1..Len(password) : InSeq(password[i], class)

\* A class is selected iff the password has a character of it.
ClassAsSelected(selected, class) == selected <=> HasCharOf(ret.value, class)

\* C6: for length >= 4, at least one class selected and no exclusions,
\* generate_random returns exactly `length` characters, with a character of
\* every selected class and none of an unselected class.
C6_RandomClasses ==
    (/\ pc = "done"
     /\ call.op = "generate_random"
     /\ call.length >= 4
     /\ (call.use_lowercase \/ call.use_uppercase \/ call.use_digits \/ call.use_symbols)
     /\ ~call.exclude_ambiguous
     /\ call.exclude_chars = <<>>)
    => /\ ret.kind = "return"
       /\ Len(ret.value) = call.length
       /\ ClassAsSelected(call.use_lowercase, lowercase)
       /\ ClassAsSelected(call.use_uppercase, uppercase)
       /\ ClassAsSelected(call.use_digits, digits)
       /\ ClassAsSelected(call.use_symbols, symbols)
       /\ \A i \in 1..Len(ret.value) :
            \/ InSeq(ret.value[i], lowercase)
            \/ InSeq(ret.value[i], uppercase)
            \/ InSeq(ret.value[i], digits)
            \/ InSeq(ret.value[i], symbols)

\* C6 witness: three classes selected, the password one character longer than
\* the three required ones, and its only lowercase letter in the last place
\* (the shuffle moved the required lowercase letter away from the front).
C6_Witness ==
    /\ Returned("generate_random")
    /\ call.use_lowercase /\ call.use_uppercase /\ call.use_digits /\ ~call.use_symbols
    /\ ~call.exclude_ambiguous
    /\ call.exclude_chars = <<>>
    /\ Len(ret.value) = 4
    /\ \A i \in 1..3 : ~InSeq(ret.value[i], lowercase)
    /\ InSeq(ret.value[4], lowercase)

\* C7: every character of a password generate_random returns belongs to the
\* pool (the selected classes minus the ambiguous and the excluded
\* characters); no character of exclude_chars appears in it.
C7_OutputInPool ==
    Returned("generate_random") =>
        /\ \A i \in 1..Len(ret.value) : InSeq(ret.value[i], char_pool(generator, call))
        /\ \A i \in 1..Len(ret.value) : ~InSeq(ret.value[i], call.exclude_chars)

\* C8: generate_random raises ValueError, returning nothing, when length < 4
\* and when the pool is empty; for length < 4 it does so before any draw.
C8_RandomRejects ==
    (pc = "done" /\ call.op = "generate_random") =>
        /\ (call.length < 4 \/ char_pool(generator, call) = <<>>)
              => (ret.kind = "raise" /\ ret.error = "ValueError")
        /\ call.length < 4 => draws = 0

\* C8 witness: a class is selected and the length is at least 4, but the
\* exclusions empty the pool: the call raised after drawing one character.
C8_Witness ==
    /\ pc = "done"
    /\ call.op = "generate_random"
    /\ call.length >= 4
    /\ call.use_digits
    /\ char_pool(generator, call) = <<>>
    /\ ret.kind = "raise"
    /\ draws = 1

\* The character out is what pattern character c allows.
C9_Allowed(c, out) ==
    CASE c = "l" -> InSeq(out, lowercase)
      [] c = "L" -> InSeq(out, uppercase)
      [] c = "d" -> InSeq(out, digits)
      [] c = "s" -> InSeq(out, symbols)
      [] c = "a" -> InSeq(out, lowercase) \/ InSeq(out, uppercase) \/ InSeq(out, digits)
      [] c = "*" -> \/ InSeq(out, lowercase) \/ InSeq(out, uppercase)
                    \/ InSeq(out, digits) \/ InSeq(out, symbols)
      [] OTHER -> out = c

\* C9: generate_custom_pattern never fails; the result is as long as the
\* pattern, and position i holds a character of the class pattern[i] names,
\* or pattern[i] itself when it names none.
C9_CustomPattern ==
    (pc = "done" /\ call.op = "generate_custom_pattern") =>
        /\ ret.kind = "return"
        /\ Len(ret.value) = Len(call.pattern)
        /\ \A i \in 1..Len(call.pattern) : C9_Allowed(call.pattern[i], ret.value[i])

\* C9 witness: the pattern "LD@" gave an uppercase letter other than "D",
\* then the literals "D" and "@".
C9_Witness ==
    /\ Returned("generate_custom_pattern")
    /\ call.pattern = <<"L", "D", "@">>
    /\ ret.value[1] # "D"
    /\ ret.value[2] = "D"
    /\ ret.value[3] = "@"

(* ------------------ properties of the recommendations ------------------ *)

\* The password of the finished call has a lowercase letter, an uppercase
\* letter, a digit and a symbol, and none of the six patterns.
DiverseAndPatternFree ==
    LET diversity == get_character_diversity(call.password)
        patterns  == check_patterns(call.password, keyboard_patterns, common_passwords)
    IN /\ diversity.has_lowercase /\ diversity.has_uppercase
       /\ diversity.has_numbers /\ diversity.has_symbols
       /\ \A k \in DOMAIN patterns : ~patterns[k]

\* C11 as stated: every password with all four character classes and none of
\* the six patterns gets exactly one recommendation, the affirmative message.
C11_AffirmativeOnly_AnyLength ==
    (Returned("analyze") /\ DiverseAndPatternFree) => RecList = <<MsgGreat>>

\* C11 amended: every password of 12 or more characters with all four
\* character classes and none of the six patterns gets exactly one
\* recommendation, the affirmative message.
C11_AffirmativeOnly ==
    (Returned("analyze") /\ DiverseAndPatternFree /\ Len(call.password) >= 12)
        => RecList = <<MsgGreat>>

\* C11 witness: analyze of a long, diverse, pattern-free password returned
\* the affirmative message alone.
C11_Witness ==
    /\ Returned("analyze")
    /\ DiverseAndPatternFree
    /\ Len(call.password) >= 12
    /\ RecList = <<MsgGreat>>

(* ------------------- properties of the random draws -------------------- *)

\* C12: every random choice of a finished generation call was taken from the
\* cryptographically secure module (secrets), none from the general-purpose
\* module (random).
C12_SecureSourceOnly ==
    pc = "done" => rng \subseteq {"secrets"}

(* ----------------- properties of the parameter checks ------------------ *)

\* The parameter of the finished call violates its strategy's constraint.
ParameterViolated ==
    \/ call.op = "generate_random" /\ call.length < 4
    \/ call.op = "generate_random" /\ char_pool(generator, call) = <<>>
    \/ call.op = "generate_memorable" /\ call.word_count < 2

\* C13: a generation call whose parameter violates its strategy's constraint
\* raises; it never returns a password.
C13_InvalidParameterRaises ==
    (pc = "done" /\ call.op \in {"generate_random", "generate_memorable"}
       /\ ParameterViolated) => ret.kind = "raise"

(* --------------------- properties of the report ------------------------ *)

ReportFields ==
    {"password_length", "score", "strength", "entropy_bits", "patterns_found",
     "character_diversity", "crack_time_estimates", "recommendations",
     "zxcvbn_score", "warning", "suggestions"}

CrackTimeFields ==
    {"offline_slow", "offline_fast", "online_throttled", "online_unthrottled"}

\* An invocation of the external estimator failed during the call.
EstimatorFailed == \E i \in 1..Len(zxcvbn_calls) : ~zxcvbn_calls[i].ok

\* C14: analyze returns a report with every field present, or fails; when
\* either estimator invocation fails the failure reaches the caller and no
\* report is returned.
C14_ReportOrFailure ==
    (pc = "done" /\ call.op = "analyze") =>
        /\ ret.kind \in {"return", "raise"}
        /\ ret.kind = "return" =>
              /\ DOMAIN ret.value = ReportFields
              /\ DOMAIN ret.value.crack_time_estimates = CrackTimeFields
        /\ EstimatorFailed => ret = Raise("zxcvbn")

\* C14 witness: the first estimator invocation answered, the second failed,
\* and analyze raised.
C14_Witness ==
    /\ pc = "done" /\ call.op = "analyze"
    /\ Len(zxcvbn_calls) = 2
    /\ zxcvbn_calls[1].ok /\ ~zxcvbn_calls[2].ok
    /\ ret = Raise("zxcvbn")

(* ------------------- properties of the breach lookup ------------------- *)

\* The hash of the password of the finished check_password_breach call.
LookedUpHash == sha1_hexdigest_upper(call.password)

\* C15: check_password_breach sends one request; its URL is the service's
\* address followed by the first 5 hexadecimal characters of the password's
\* SHA-1 hash and nothing else, its headers are the checker's own, so neither
\* the full hash nor the 35-character suffix leaves; a positive answer comes
\* from comparing the suffix with the lines received.
C15_OnlyPrefixSent ==
    (pc = "done" /\ call.op = "check_password_breach") =>
        /\ Len(http) = 1
        /\ http[1].request =
              [method |-> "GET", url |-> HibpPasswordApi \o SubSeq(LookedUpHash, 1, 5),
               headers |-> Headers, timeout |-> 10]
        /\ ~Contains(http[1].request.url, SubSeq(LookedUpHash, 6, 40))
        /\ ret.value[1] =>
              \E c \in CountTexts :
                 Contains(http[1].response.text,
                          SubSeq(LookedUpHash, 6, 40) \o <<":">> \o c)

\* C15 witness: a lookup that sent the prefix and found the suffix among
\* the lines received.
C15_Witness ==
    /\ Returned("check_password_breach")
    /\ http[1].request.url = HibpPasswordApi \o SubSeq(LookedUpHash, 1, 5)
    /\ ret.value = <<TRUE, 50>>

\* The lookup of password p answered by the service with outcome o failed.
LookupFailed(p, o) == check_password_breach_run(p, o).failed

\* C16: a failed lookup is told apart from a lookup that found nothing: its
\* result is not (False, 0), and in a batch its risk level is not "Safe".
C16_FailureDistinguishable ==
    /\ (pc = "done" /\ call.op = "check_password_breach"
          /\ LookupFailed(call.password, http[1].response))
         => ret.value # <<FALSE, 0>>
    /\ (pc = "done" /\ call.op = "batch_check_passwords") =>
         \A i \in 1..Len(ret.value) :
            LookupFailed(call.passwords[i], http[i].response)
               => ret.value[i].risk_level # "Safe"

(* ------------------- properties of batch_generate ---------------------- *)

\* password is a possible result of generate_random with the arguments a:
\* it has the requested length, each selected class has a position of its own
\* holding a draw from that class, and every other position holds a draw from
\* the pool
PossibleRandomResult(password, a) ==
    LET classes == selected_classes(generator, a)
        pool    == char_pool(generator, a)
    IN /\ ~length_rejected(a.length)
       /\ pool # <<>>
       /\ Len(password) = a.length
       /\ \E f \in [1..Len(classes) -> 1..Len(password)] :
             /\ \A j, k \in 1..Len(classes) : f[j] = f[k] => j = k
             /\ \A j \in 1..Len(classes) : password[f[j]] \in secrets_choice(classes[j])
             /\ \A i \in 1..Len(password) :
                   (\A j \in 1..Len(classes) : f[j] # i)
                      => password[i] \in secrets_choice(pool)

C19_Label(entropy) ==
    IF entropy >= 6000 THEN "Very Strong"
    ELSE IF entropy >= 4000 THEN "Strong"
    ELSE IF entropy >= 3000 THEN "Moderate"
    ELSE "Weak"

\* C19: estimate_strength returns for every string, the empty one included,
\* a record with entropy, strength, charset_size and length, without asking
\* the external estimator; the strength is the label of the entropy
\* (Very Strong from 60, Strong from 40, Moderate from 30, Weak below) and a
\* charset_size of 0 gives entropy 0.
C19_EstimateTotal ==
    (pc = "done" /\ call.op = "estimate_strength") =>
        /\ ret.kind = "return"
        /\ DOMAIN ret.value = {"entropy", "strength", "charset_size", "length"}
        /\ zxcvbn_calls = <<>>
        /\ ret.value.length = Len(call.password)
        /\ ret.value.strength = C19_Label(ret.value.entropy)
        /\ ret.value.charset_size = 0 => ret.value.entropy = 0

\* C19 witness: the empty string was estimated: charset_size 0, entropy 0,
\* Weak.
C19_Witness ==
    /\ Returned("estimate_strength")
    /\ call.password = <<>>
    /\ ret.value = [entropy |-> 0, strength |-> "Weak", charset_size |-> 0, length |-> 0]

(* ----------------------- properties of the frame ----------------------- *)

\* The generator as its constructor leaves it.
ConstructedGenerator ==
    [lowercase |-> ascii_lowercase, uppercase |-> ascii_uppercase,
     digits |-> ascii_digits, symbols |-> GeneratorSymbols,
     adjectives |-> Adjectives, nouns |-> Nouns, verbs |-> Verbs]

\* The result of the finished call is one the same call gives on freshly
\* constructed objects, with the same estimator answers.
ResultFromArguments ==
    /\ call.op = "check_patterns" =>
          ret = Return(check_patterns(call.password, KeyboardPatterns, CommonPasswords))
    /\ call.op = "calculate_score" =>
          \E z \in ZxcvbnOutcomes :
             calculate_score_run(call.password, z, KeyboardPatterns, CommonPasswords)
                = [ret |-> ret, zx |-> zxcvbn_calls]
    /\ call.op = "analyze" =>
          \E z1 \in ZxcvbnOutcomes, z2 \in ZxcvbnOutcomes :
             analyze_run(call.password, z1, z2, KeyboardPatterns, CommonPasswords)
                = [ret |-> ret, zx |-> zxcvbn_calls]
    /\ call.op = "estimate_strength" =>
          ret = Return(estimate_strength(ConstructedGenerator, call.password))
    /\ call.op = "generate_passphrase" =>
          \E words \in passphrase_words(ConstructedGenerator, call.word_count,
                                        call.capitalize_words) :
             ret = Return(join_with(call.separator, words))
    /\ call.op = "generate_memorable" =>
          \E words \in memorable_words(ConstructedGenerator,
                                       effective_word_count(call.word_count),
                                       call.capitalize, 0) :
             /\ Len(join(words)) <= Len(ret.value)
             /\ SubSeq(ret.value, 1, Len(join(words))) = join(words)

\* C17: no call of the analyzer or the generator, in any order, changes the
\* common-password corpus, the keyboard-pattern list, the generator's
\* alphabets or its word lists, and the result of each call is what the
\* same arguments, estimator answers and draws give on the objects as
\* constructed.
C17_FrameUnchanged ==
    /\ [][UNCHANGED <<common_passwords, keyboard_patterns, lowercase, uppercase,
                      digits, symbols, adjectives, nouns, verbs>>]_vars
    /\ [](pc = "done" => ResultFromArguments)

\* C17 witness: a passphrase was generated and the corpus, the pattern list,
\* the alphabets and the word lists are those of the constructors.
C17_Witness ==
    /\ Returned("generate_passphrase")
    /\ ret.value # <<>>
    /\ common_passwords = CommonPasswords
    /\ keyboard_patterns = KeyboardPatterns
    /\ generator = ConstructedGenerator

(* -------------------- properties of check_patterns --------------------- *)

\* The nine digit triples 012, 123, ..., 789, 890.
C20_NumberTriples ==
    {<<ascii_digits[d + 1], ascii_digits[d + 2], ascii_digits[((d + 2) % 10) + 1]>> :
        d \in 0..8}

\* The 24 letter triples abc, bcd, ..., xyz.
C20_LetterTriples ==
    {<<ascii_lowercase[i], ascii_lowercase[i + 1], ascii_lowercase[i + 2]>> :
        i \in 1..24}

\* Some character occurs 3 or more times in a row in s.
C20_ThreeInARow(s) ==
    \E i \in 1..(Len(s) - 2) : s[i] = s[i + 1] /\ s[i + 1] = s[i + 2]

\* C20: check_patterns sets sequential_numbers exactly when the password
\* contains one of the nine digit triples, sequential_letters exactly when
\* its lower-cased form contains one of the 24 letter triples,
\* repeated_characters exactly when some character occurs 3 or more times in
\* a row, and keyboard_pattern exactly when its lower-cased form contains an
\* entry of the keyboard-pattern list.
C20_PatternFlags ==
    Returned("check_patterns") =>
        /\ ret.value.sequential_numbers
              <=> \E t \in C20_NumberTriples : Contains(call.password, t)
        /\ ret.value.sequential_letters
              <=> \E t \in C20_LetterTriples : Contains(lower(call.password), t)
        /\ ret.value.repeated_characters <=> C20_ThreeInARow(call.password)
        /\ ret.value.keyboard_pattern
              <=> \E k \in 1..Len(keyboard_patterns) :
                     Contains(lower(call.password), keyboard_patterns[k])

(* ------------------ properties of the pattern findings ----------------- *)

\* s and t are the same string up to the case of their ASCII letters.
SameIgnoringCase(s, t) ==
    /\ Len(s) = Len(t)
    /\ \A i \in 1..Len(s) :
          \/ s[i] = t[i]
          \/ \E j \in 1..26 : {s[i], t[i]} = {ascii_lowercase[j], ascii_uppercase[j]}

\* s contains t and is longer than t.
ProperlyContains(s, t) == Len(s) > Len(t) /\ Contains(s, t)

\* C21: the common-password finding is true exactly when the whole password
\* equals a corpus member up to letter case; so every corpus member is
\* reported in any letter case, and a password that only contains corpus
\* members is not.
C21_CommonWord ==
    Returned("check_patterns") =>
        /\ ret.value.common_word =
             (\E m \in CommonPasswords : SameIgnoringCase(call.password, m))
        /\ (/\ \E m \in CommonPasswords : ProperlyContains(call.password, m)
            /\ \A m \in CommonPasswords : ~SameIgnoringCase(call.password, m))
           => ~ret.value.common_word

\* C21 witness: a corpus member typed in capitals was reported as common.
C21_Witness ==
    /\ Returned("check_patterns")
    /\ call.password \notin CommonPasswords
    /\ \E m \in CommonPasswords : SameIgnoringCase(call.password, m)
    /\ \E i \in 1..Len(call.password) : call.password[i] \in UpperClass
    /\ ret.value.common_word

\* Positions i..j of the password hold a run of digits that cannot be extended.
UnbrokenDigitRun(password, i, j) ==
    /\ 1 <= i /\ i <= j /\ j <= Len(password)
    /\ \A k \in i..j : re_digit(password[k])
    /\ i = 1 \/ ~re_digit(password[i - 1])
    /\ j = Len(password) \/ ~re_digit(password[j + 1])

\* Two to four digits, a separator, two digits, a separator, two to four
\* digits: the shapes DD/MM/YYYY and YYYY-MM-DD and their short-year forms.
SeparatedDate(password) ==
    \E i \in 1..Len(password) : \E a \in 2..4 : \E b \in 2..4 :
        /\ i + a + 4 + b - 1 <= Len(password)
        /\ \A k \in (i..(i + a - 1)) \cup ((i + a + 1)..(i + a + 2))
                     \cup ((i + a + 4)..(i + a + 3 + b)) : re_digit(password[k])
        /\ password[i + a] \in {"-", "/"}
        /\ password[i + a + 3] \in {"-", "/"}

\* C22: the date-pattern finding is true exactly when the password contains a
\* separator-delimited date or an unbroken run of 6 to 8 digits; digit runs
\* shorter than 6 or longer than 8 alone do not set it.
C22_DatePattern ==
    Returned("check_patterns") =>
        ret.value.date_pattern =
            \/ SeparatedDate(call.password)
            \/ \E i \in 1..Len(call.password) : \E j \in i..Len(call.password) :
                  UnbrokenDigitRun(call.password, i, j) /\ j - i + 1 \in 6..8

(* ------------------ properties of the score components ----------------- *)

\* What calculate_score adds for the call's password besides the diversity
\* component.
ScoreWithoutDiversity ==
    length_points(call.password) + entropy_points(call.password)
    + pattern_penalty(call.password, keyboard_patterns, common_passwords)
    + 4 * zxcvbn_calls[1].score

TrueFlags(dict) == {k \in DOMAIN dict : dict[k]}

\* C23: the diversity component of the score is 5 points for each true
\* CharacterDiversity flag, the space flag included, and is at most 20 for
\* every password.
C23_DiversityComponent ==
    (Returned("calculate_score") /\ call.password # <<>>) =>
        LET D == 5 * Cardinality(TrueFlags(get_character_diversity(call.password))) IN
        /\ RawScore \in 0..100 => ReportedScore - ScoreWithoutDiversity = D
        /\ D <= 20

\* The fixed weight of a finding as the specification lists it.
C24_Weight(k) ==
    CASE k = "sequential_numbers" -> 5 [] k = "sequential_letters" -> 5
      [] k = "repeated_characters" -> 10 [] k = "keyboard_pattern" -> 10
      [] k = "common_word" -> 20 [] k = "date_pattern" -> 5

\* What calculate_score adds for the call's password besides the penalty.
ScoreWithoutPenalty ==
    length_points(call.password) + entropy_points(call.password)
    + diversity_points(call.password) + 4 * zxcvbn_calls[1].score

\* C24: the penalty calculate_score applies is the sum of the weights of the
\* true findings, and that sum is at most 30 for every password.
C24_PatternPenalty ==
    (Returned("calculate_score") /\ call.password # <<>>) =>
        LET found == TrueFlags(check_patterns(call.password, keyboard_patterns,
                                              common_passwords))
            total == SumOver([k \in found |-> C24_Weight(k)], found)
        IN /\ RawScore \in 0..100 => ScoreWithoutPenalty - ReportedScore = total
           /\ total <= 30

\* The character-set size as the specification sums it.
C25_Charset(password) ==
    LET has(class) == \E i \in 1..Len(password) : password[i] \in class IN
    (IF has(LowerClass) THEN 26 ELSE 0) + (IF has(UpperClass) THEN 26 ELSE 0)
    + (IF has(DigitClass) THEN 10 ELSE 0) + (IF has(SymbolClass) THEN 32 ELSE 0)

\* C25: calculate_entropy returns length * log2(charset_size) rounded to two
\* decimals when charset_size > 0 and 0 otherwise; it returns 0 only when
\* charset_size is 0, which is the case exactly for the empty password; the
\* result is never negative.
C25_Entropy ==
    Returned("calculate_entropy") =>
        LET size == C25_Charset(call.password) IN
        /\ size > 0 =>
              ret.value = (Len(call.password) * log2_micro(size) + 5000) \div 10000
        /\ size = 0 => ret.value = 0
        /\ ret.value = 0 => size = 0
        /\ size = 0 <=> call.password = <<>>
        /\ ret.value >= 0

(* ------------------ properties of the recommendations ------------------ *)

\* The messages in the order the specification fixes.
C26_Messages ==
    <<MsgLength, MsgUpper, MsgLower, MsgNumbers, MsgSymbols, MsgSeqNum, MsgSeqLet,
      MsgRepeat, MsgKeyboard, MsgCommon, MsgDate>>

\* The condition of the i-th message holds for the finished call.
C26_Fires(i) ==
    CASE i = 1 -> Len(call.password) < 12
      [] i = 2 -> ~RecDiversity.has_uppercase
      [] i = 3 -> ~RecDiversity.has_lowercase
      [] i = 4 -> ~RecDiversity.has_numbers
      [] i = 5 -> ~RecDiversity.has_symbols
      [] i = 6 -> RecPatterns.sequential_numbers
      [] i = 7 -> RecPatterns.sequential_letters
      [] i = 8 -> RecPatterns.repeated_characters
      [] i = 9 -> RecPatterns.keyboard_pattern
      [] i = 10 -> RecPatterns.common_word
      [] i = 11 -> RecPatterns.date_pattern

\* C26: when a condition fires, the list holds exactly the messages whose
\* condition holds, each once, in the fixed order: length, then uppercase,
\* lowercase, digits, symbols, then sequential digits, sequential letters,
\* repeated run, keyboard pattern, common password, date pattern; the space
\* flag has no message.
C26_FixedOrder ==
    ((Returned("generate_recommendations") \/ Returned("analyze")) /\ ConditionFires) =>
        /\ \A i \in 1..11 :
              C26_Fires(i) <=> \E j \in 1..Len(RecList) : RecList[j] = C26_Messages[i]
        /\ \A j \in 1..Len(RecList) : \A k \in (j + 1)..Len(RecList) :
              \E a \in 1..11 : \E b \in (a + 1)..11 :
                  RecList[j] = C26_Messages[a] /\ RecList[k] = C26_Messages[b]
        /\ Len(RecList) = Cardinality({i \in 1..11 : C26_Fires(i)})

\* C26 witness: a list that starts with the length message, goes on with a
\* missing-class message and ends with the date message after another
\* pattern message, for a call whose space flag is false.
C26_Witness ==
    /\ Returned("generate_recommendations")
    /\ ~RecDiversity.has_spaces
    /\ Len(RecList) >= 4
    /\ RecList[1] = MsgLength
    /\ RecList[2] \in {MsgUpper, MsgLower, MsgNumbers, MsgSymbols}
    /\ RecList[Len(RecList) - 1] \in {MsgSeqNum, MsgSeqLet, MsgRepeat, MsgKeyboard, MsgCommon}
    /\ RecList[Len(RecList)] = MsgDate

(* ---------------- properties of the memorable passwords ---------------- *)

\* The list the i-th word is taken from.
C27_List(i) == IF i % 3 = 0 THEN adjectives ELSE IF i % 3 = 1 THEN nouns ELSE verbs

\* A list word as it appears at index i of the finished call.
C27_Cased(w, i) ==
    IF call.capitalize /\ i % 2 = 0 THEN <<InCapitals(w[1])>> \o Tail(w) ELSE w

\* s is 2 to 4 digits iff add_numbers, then 1 to 2 generator symbols iff
\* add_symbols, and nothing else.
C27_Suffix(s) ==
    \E d \in (IF call.add_numbers THEN 2..4 ELSE {0}) :
    \E y \in (IF call.add_symbols THEN 1..2 ELSE {0}) :
        /\ Len(s) = d + y
        /\ \A k \in 1..d : InSeq(s[k], ascii_digits)
        /\ \A k \in (d + 1)..(d + y) : InSeq(s[k], GeneratorSymbols)

\* s is the words of indices i..n-1, each from its list and in its case,
\* followed by the suffix.
RECURSIVE C27_Parses(_, _, _)
C27_Parses(s, i, n) ==
    IF i = n THEN C27_Suffix(s)
    ELSE \E k \in 1..Len(C27_List(i)) :
            LET w == C27_Cased(C27_List(i)[k], i) IN
            /\ Len(w) <= Len(s)
            /\ SubSeq(s, 1, Len(w)) = w
            /\ C27_Parses(SubSeq(s, Len(w) + 1, Len(s)), i + 1, n)

\* C27: for word_count >= 2 generate_memorable returns word_count words, the
\* i-th an adjective, noun or verb as i mod 3 is 0, 1 or 2, capitalized iff
\* capitalize is set and i is even, then 2 to 4 digits iff add_numbers, then
\* 1 to 2 generator symbols iff add_symbols.
C27_MemorableShape ==
    (Returned("generate_memorable") /\ call.word_count >= 2) =>
        C27_Parses(ret.value, 0, call.word_count)

\* C27 witness: three words, the first and third capitalized, then four
\* digits and two symbols.
C27_Witness ==
    /\ Returned("generate_memorable")
    /\ call.word_count = 3
    /\ call.capitalize /\ call.add_numbers /\ call.add_symbols
    /\ ret.value[1] \in UpperClass
    /\ C27_Parses(ret.value, 0, 3)
    /\ LET n == Len(ret.value) IN
         /\ \A k \in (n - 5)..(n - 2) : InSeq(ret.value[k], ascii_digits)
         /\ \A k \in (n - 1)..n : InSeq(ret.value[k], GeneratorSymbols)

(* -------------- properties of the pronounceable passwords -------------- *)

\* The space the call reserves for its digits and symbols.
C28_Reserved == (IF call.add_numbers THEN 4 ELSE 0) + (IF call.add_symbols THEN 2 ELSE 0)

\* C28: generate_pronounceable returns exactly `length` characters: length
\* minus the reserved space letters, the first of them uppercase, then exactly
\* 4 digits iff add_numbers, then exactly 2 generator symbols iff add_symbols,
\* for every requested length.
C28_PronounceableShape ==
    Returned("generate_pronounceable") =>
        LET letters == call.length - C28_Reserved
            numbers == IF call.add_numbers THEN 4 ELSE 0
        IN /\ Len(ret.value) = call.length
           /\ \A k \in 1..letters :
                 InSeq(ret.value[k], ascii_lowercase) \/ InSeq(ret.value[k], ascii_uppercase)
           /\ letters >= 1 => InSeq(ret.value[1], ascii_uppercase)
           /\ \A k \in (letters + 1)..(letters + numbers) : InSeq(ret.value[k], ascii_digits)
           /\ \A k \in (letters + numbers + 1)..call.length :
                 InSeq(ret.value[k], GeneratorSymbols)

\* ceil(budget / 2) iterations for a positive budget, none otherwise.
C29_MaxIterations ==
    IF syllable_budget(call) <= 0 THEN 0 ELSE (syllable_budget(call) + 1) \div 2

\* C29: the syllable loop of generate_pronounceable terminates for every
\* length and flag combination under every sequence of draws: an iteration
\* appends at least 2 characters, the loop runs at most ceil(budget / 2)
\* times, zero times for a budget of zero or less, and every started call
\* returns.
C29_LoopTerminates ==
    /\ [](pc = "loop" => ret.iterations <= C29_MaxIterations)
    /\ [][(pc = "loop" /\ pc' = "loop") =>
            Len(ret'.password) >= Len(ret.password) + 2]_vars
    /\ (pc = "loop") ~> (pc = "done")

\* C29 witness: with a budget of 6 the loop has run the full three
\* iterations of two letters each and its condition is now false.
C29_Witness ==
    /\ pc = "loop"
    /\ syllable_budget(call) = 6
    /\ ret.iterations = 3
    /\ Len(ret.password) = 6

(* ------------------- properties of the analysis report ----------------- *)

====
